---- MODULE Spec2Model ----
(***************************************************************************)
(* ZaiMcpClient (lib/mcp-client.ts): the session object (client,           *)
(* initPromise, isInitialized), the registration attempts started by       *)
(* init()/_doInit(), the retry loop of callTool() with its budget          *)
(* (getRetryCount) and error classification, close(), the tool cache       *)
(* (readToolsCache, writeToolsCache, listTools) with the redaction of      *)
(* lib/redact.ts, and name resolution (getTool, resolveToolName,           *)
(* callToolRaw).                                                           *)
(*                                                                         *)
(* Three specifications share the client's actions: Spec (two concurrent   *)
(* callers of callTool and close), RetrySpec (one caller of callTool under *)
(* every environment and every transport failure) and CacheSpec (one       *)
(* caller of listTools and the resolvers under every cache configuration   *)
(* and cache file).                                                        *)
(*                                                                         *)
(* The program is single-threaded JavaScript: a step of the model is the   *)
(* code that runs between two awaits of one async call, so the callers     *)
(* interleave exactly at the awaits.  The transport (UtcpClient.create,    *)
(* registerManual, callTool, close) is external: each of its calls returns *)
(* or raises nondeterministically, and a close may never complete.         *)
(***************************************************************************)
EXTENDS Integers, Sequences, FiniteSets, TLC

(***************************************************************************)
(* Bounds of the model.                                                    *)
(***************************************************************************)
\* _doInit() attempts (and so transport sessions) one client instance starts
MaxAttempts == 3

\* the callers of the client instance; each makes one public call
Tasks == {"t1", "t2"}
AttemptIds == 1..MaxAttempts
\* the instants of the clock, from 0
MaxTime == 3
\* the retry budgets getRetryCount hands to callTool
Budgets == {0, 1, 2}

(***************************************************************************)
(* Strings are sequences of one-character strings, so that                 *)
(* String.prototype.includes and toLowerCase are computed, not assumed.    *)
(***************************************************************************)
Includes(s, sub) ==
  \E i \in 1..(Len(s) - Len(sub) + 1) : SubSeq(s, i, i + Len(sub) - 1) = sub

UpperToLower ==
  [A |-> "a", B |-> "b", C |-> "c", D |-> "d", E |-> "e", F |-> "f", G |-> "g",
   H |-> "h", I |-> "i", J |-> "j", K |-> "k", L |-> "l", M |-> "m", N |-> "n",
   O |-> "o", P |-> "p", Q |-> "q", R |-> "r", S |-> "s", T |-> "t", U |-> "u",
   V |-> "v", W |-> "w", X |-> "x", Y |-> "y", Z |-> "z"]

toLowerCase(s) ==
  [i \in 1..Len(s) |-> IF s[i] \in DOMAIN UpperToLower THEN UpperToLower[s[i]] ELSE s[i]]

\* the needles of isRetriableError, _doInit and callTool
s401 == <<"4","0","1">>
s403 == <<"4","0","3">>
sAuth == <<"a","u","t","h">>
sTimeout == <<"t","i","m","e","o","u","t">>
sTimedOut == <<"t","i","m","e","d"," ","o","u","t">>
sEtimedoutLc == <<"e","t","i","m","e","d","o","u","t">>
sEconnrefusedLc == <<"e","c","o","n","n","r","e","f","u","s","e","d">>
sEconnresetLc == <<"e","c","o","n","n","r","e","s","e","t">>
sNetwork == <<"n","e","t","w","o","r","k">>
sFetch == <<"f","e","t","c","h">>
sInternalNetworkFailure == <<"i","n","t","e","r","n","a","l"," ","n","e","t","w","o","r","k"," ","f","a","i","l","u","r","e">>
sUnexpectedLc == <<"u","n","e","x","p","e","c","t","e","d"," ","s","y","s","t","e","m"," ","e","r","r","o","r">>
sHttp500 == <<"h","t","t","p"," ","5","0","0">>
sHttp502 == <<"h","t","t","p"," ","5","0","2">>
sHttp503 == <<"h","t","t","p"," ","5","0","3">>
sHttp504 == <<"h","t","t","p"," ","5","0","4">>
sRateLimit == <<"r","a","t","e"," ","l","i","m","i","t">>
s429 == <<"4","2","9">>
sMinus500 == <<"-","5","0","0">>
sETIMEDOUT == <<"E","T","I","M","E","D","O","U","T">>
sECONNREFUSED == <<"E","C","O","N","N","R","E","F","U","S","E","D">>
sUnexpected == <<"U","n","e","x","p","e","c","t","e","d"," ","s","y","s","t","e","m"," ","e","r","r","o","r">>

(***************************************************************************)
(* What the transport can raise.  An error is its class (the instanceof    *)
(* tests of the code) and its message.                                     *)
(***************************************************************************)
Errors ==
  [e503     |-> [cls |-> "Error", msg |-> <<"H","T","T","P"," ","5","0","3">>],
   eTimeout |-> [cls |-> "Error", msg |-> <<"t","i","m","e","o","u","t">>],
   e401     |-> [cls |-> "Error", msg |-> <<"4","0","1"," ","f","e","t","c","h"," ","f","a","i","l","e","d">>],
   eInvalid |-> [cls |-> "ValidationError", msg |-> <<"i","n","v","a","l","i","d"," ","i","n","p","u","t",":"," ","n","e","t","w","o","r","k">>],
   eDenied  |-> [cls |-> "AuthError", msg |-> <<"d","e","n","i","e","d",":"," ","r","a","t","e"," ","l","i","m","i","t">>],
   e400     |-> [cls |-> "Error", msg |-> <<"H","T","T","P"," ","4","0","0">>],
   eTimedOut   |-> [cls |-> "Error", msg |-> <<"R","e","q","u","e","s","t"," ","t","i","m","e","d"," ","o","u","t">>],
   eEtimedout  |-> [cls |-> "Error", msg |-> <<"c","o","n","n","e","c","t"," ","E","T","I","M","E","D","O","U","T">>],
   eRefused    |-> [cls |-> "Error", msg |-> <<"c","o","n","n","e","c","t"," ","E","C","O","N","N","R","E","F","U","S","E","D">>],
   eReset      |-> [cls |-> "Error", msg |-> <<"r","e","a","d"," ","E","C","O","N","N","R","E","S","E","T">>],
   eNetwork    |-> [cls |-> "Error", msg |-> <<"N","e","t","w","o","r","k"," ","e","r","r","o","r">>],
   eFetch      |-> [cls |-> "Error", msg |-> <<"f","e","t","c","h"," ","f","a","i","l","e","d">>],
   eInternal   |-> [cls |-> "Error", msg |-> <<"I","n","t","e","r","n","a","l"," ","N","e","t","w","o","r","k"," ","F","a","i","l","u","r","e">>],
   eUnexpected |-> [cls |-> "Error", msg |-> <<"U","n","e","x","p","e","c","t","e","d"," ","s","y","s","t","e","m"," ","e","r","r","o","r">>],
   eMinus500   |-> [cls |-> "Error", msg |-> <<"M","C","P"," ","e","r","r","o","r"," ","-","5","0","0">>],
   e500        |-> [cls |-> "Error", msg |-> <<"H","T","T","P"," ","5","0","0">>],
   e502        |-> [cls |-> "Error", msg |-> <<"H","T","T","P"," ","5","0","2">>],
   e504        |-> [cls |-> "Error", msg |-> <<"H","T","T","P"," ","5","0","4">>],
   eRate       |-> [cls |-> "Error", msg |-> <<"R","a","t","e"," ","l","i","m","i","t"," ","e","x","c","e","e","d","e","d">>],
   e429        |-> [cls |-> "Error", msg |-> <<"4","2","9"," ","T","o","o"," ","M","a","n","y"," ","R","e","q","u","e","s","t","s">>],
   e404        |-> [cls |-> "Error", msg |-> <<"H","T","T","P"," ","4","0","4",":"," ","n","o","t"," ","f","o","u","n","d">>],
   eParse      |-> [cls |-> "Error", msg |-> <<"I","n","v","a","l","i","d"," ","J","S","O","N"," ","r","e","s","p","o","n","s","e">>],
   eUnauth     |-> [cls |-> "Error", msg |-> <<"U","n","a","u","t","h","o","r","i","z","e","d",":"," ","n","e","t","w","o","r","k">>],
   e403        |-> [cls |-> "Error", msg |-> <<"H","T","T","P"," ","4","0","3"," ","t","i","m","e","o","u","t">>],
   \* new ApiError(`Failed to register MCP servers: ${result.errors.join(', ')}`, 500)
   eRegisterAuth |-> [cls |-> "ApiError",
                      msg |-> <<"F","a","i","l","e","d"," ","t","o"," ","r","e","g","i","s","t","e","r"," ","M","C","P"," ","s","e","r","v","e","r","s",":"," ","H","T","T","P"," ","4","0","1"," ","U","n","a","u","t","h","o","r","i","z","e","d">>],
   eRegisterRefused |-> [cls |-> "ApiError",
                         msg |-> <<"F","a","i","l","e","d"," ","t","o"," ","r","e","g","i","s","t","e","r"," ","M","C","P"," ","s","e","r","v","e","r","s",":"," ","c","o","n","n","e","c","t"," ","E","C","O","N","N","R","E","F","U","S","E","D">>],
   eRegister |-> [cls |-> "ApiError",
                  msg |-> <<"F","a","i","l","e","d"," ","t","o"," ","r","e","g","i","s","t","e","r"," ",
                            "M","C","P"," ","s","e","r","v","e","r","s",":"," ","H","T","T","P"," ","5","0","3">>]]

\* raised by client.callTool
InvokeErrors == {"e503", "e401", "eInvalid", "eDenied"}
\* raised by UtcpClient.create / registerManual
RegisterErrors == {"eTimeout", "e401"}
\* registerManual returning {success: false, errors: ["HTTP 503"]}
RegisterFailure == "eRegister"
\* every failure of client.callTool the model knows
\* what registerManual can fail with when it returns {success: false, errors}
RegisterFailures == {RegisterFailure, "eRegisterAuth", "eRegisterRefused"}

AllInvokeErrors == DOMAIN Errors \ RegisterFailures

\* the plain Errors the transport raises
TransportErrors == {e \in AllInvokeErrors : Errors[e].cls = "Error"}

(***************************************************************************)
(* isRetriableError(error)                                                 *)
(***************************************************************************)
RetriableMarkersNoReset ==
  {sTimeout, sTimedOut, sEtimedoutLc, sEconnrefusedLc, sNetwork,
   sFetch, sInternalNetworkFailure, sUnexpectedLc, sHttp500, sHttp502, sHttp503,
   sHttp504, sRateLimit, s429, sMinus500}

RetriableMarkers ==
  {sTimeout, sTimedOut, sEtimedoutLc, sEconnrefusedLc, sEconnresetLc, sNetwork,
   sFetch, sInternalNetworkFailure, sUnexpectedLc, sHttp500, sHttp502, sHttp503,
   sHttp504, sRateLimit, s429, sMinus500}

isRetriableErrorNoClassTest(error) ==
  LET normalized == toLowerCase(error.msg) IN
  IF Includes(normalized, s401) \/ Includes(normalized, s403) \/ Includes(normalized, sAuth)
  THEN FALSE
  ELSE \E m \in RetriableMarkers : Includes(normalized, m)

isRetriableError(error) ==
  IF error.cls \in {"AuthError", "ValidationError"}
  THEN FALSE
  ELSE LET normalized == toLowerCase(error.msg) IN
       IF Includes(normalized, s401) \/ Includes(normalized, s403) \/ Includes(normalized, sAuth)
       THEN FALSE
       ELSE \E m \in RetriableMarkers : Includes(normalized, m)

(***************************************************************************)
(* The typed error callTool raises for a failed invocation it does not     *)
(* retry, and the one _doInit raises for a failed registration.            *)
(***************************************************************************)
callToolError(error) ==
  IF Includes(error.msg, s401) \/ Includes(error.msg, s403) THEN "AuthError"
  ELSE IF Includes(error.msg, sTimeout) \/ Includes(error.msg, sETIMEDOUT) THEN "TimeoutError"
  ELSE IF Includes(error.msg, sECONNREFUSED) \/ Includes(error.msg, sNetwork) THEN "NetworkError"
  ELSE IF Includes(error.msg, sMinus500) \/ Includes(error.msg, sUnexpected) THEN "ApiError"
  ELSE "ApiError"

doInitError(error) ==
  IF error.cls = "ApiError" THEN "ApiError"
  ELSE IF Includes(error.msg, s401) \/ Includes(error.msg, s403) \/ Includes(error.msg, sAuth)
       THEN "AuthError"
  ELSE IF Includes(error.msg, sTimeout) \/ Includes(error.msg, sETIMEDOUT) THEN "TimeoutError"
  ELSE IF Includes(error.msg, sECONNREFUSED) \/ Includes(error.msg, sNetwork) \/ Includes(error.msg, sFetch)
       THEN "NetworkError"
  ELSE "ApiError"

\* the three, tabulated over the errors of the model
Retriable == [e \in DOMAIN Errors |-> isRetriableError(Errors[e])]
CallToolError == [e \in DOMAIN Errors |-> callToolError(Errors[e])]
DoInitError == [e \in DOMAIN Errors |-> doInitError(Errors[e])]

(***************************************************************************)
(* process.env and parseInt.  A variable of the environment is undefined   *)
(* or a string; undefined is a value no string equals.                     *)
(***************************************************************************)
undefined == <<"undefined">>

\* a || b on values that are strings or undefined
orElse(a, b) == IF a # undefined /\ a # <<>> THEN a ELSE b

DigitValue ==
  [c \in {"0", "1", "2", "3", "4", "5", "6", "7", "8", "9"} |->
     CASE c = "0" -> 0 [] c = "1" -> 1 [] c = "2" -> 2 [] c = "3" -> 3 [] c = "4" -> 4
       [] c = "5" -> 5 [] c = "6" -> 6 [] c = "7" -> 7 [] c = "8" -> 8 [] c = "9" -> 9]

NaN == [nan |-> TRUE, n |-> 0]
Number(n) == [nan |-> FALSE, n |-> n]
isFinite(x) == ~x.nan

RECURSIVE trimStart(_)
trimStart(s) == IF s # <<>> /\ s[1] = " " THEN trimStart(Tail(s)) ELSE s

\* the longest prefix of s made of decimal digits
RECURSIVE digitPrefix(_)
digitPrefix(s) ==
  IF s # <<>> /\ s[1] \in DOMAIN DigitValue THEN <<s[1]>> \o digitPrefix(Tail(s)) ELSE <<>>

RECURSIVE digitsToNumber(_)
digitsToNumber(ds) ==
  IF ds = <<>> THEN 0
  ELSE 10 * digitsToNumber(SubSeq(ds, 1, Len(ds) - 1)) + DigitValue[ds[Len(ds)]]

\* parseInt(s, 10): leading white space, an optional sign, then the digits up
\* to the first character that is none; NaN when there is no digit
parseInt(s) ==
  LET u == trimStart(s)
      negative == u # <<>> /\ u[1] = "-"
      body == IF u # <<>> /\ u[1] \in {"-", "+"} THEN Tail(u) ELSE u
      ds == digitPrefix(body)
  IN IF ds = <<>> THEN NaN
     ELSE Number(IF negative THEN 0 - digitsToNumber(ds) ELSE digitsToNumber(ds))

NoEnv ==
  [ZAI_MCP_RETRY_COUNT |-> undefined, ZAI_MCP_VISION_RETRY_COUNT |-> undefined,
   Z_AI_RETRY_COUNT |-> undefined, ZAI_MCP_TOOL_CACHE |-> undefined,
   ZAI_MCP_TOOL_CACHE_TTL_MS |-> undefined, Z_AI_API_KEY |-> undefined,
   ZAI_API_KEY |-> undefined, ZAI_MCP_RETRY_BASE_MS |-> undefined,
   ZAI_MCP_RETRY_MAX_MS |-> undefined, ZAI_MCP_RETRY_JITTER_MS |-> undefined]

\* the environments the model starts a process in
Envs ==
  [ZAI_MCP_RETRY_COUNT : {undefined, <<>>, <<"0">>, <<"1">>, <<"2">>, <<"o","n">>},
   ZAI_MCP_VISION_RETRY_COUNT : {undefined, <<>>, <<"0">>, <<"1">>, <<"x">>},
   Z_AI_RETRY_COUNT : {undefined, <<>>, <<"1">>, <<" ","2","x">>},
   ZAI_MCP_TOOL_CACHE : {undefined},
   ZAI_MCP_TOOL_CACHE_TTL_MS : {undefined},
   Z_AI_API_KEY : {undefined},
   ZAI_API_KEY : {undefined},
   ZAI_MCP_RETRY_BASE_MS : {undefined},
   ZAI_MCP_RETRY_MAX_MS : {undefined},
   ZAI_MCP_RETRY_JITTER_MS : {undefined}]

sDotVisionDot == <<".","v","i","s","i","o","n",".">>

\* the tools the model calls
ToolNames ==
  {<<"z","a","i",".","v","i","s","i","o","n",".","o","c","r">>,
   <<"z","a","i",".","s","e","a","r","c","h",".","w","e","b">>,
   <<"v","i","s","i","o","n",".","o","c","r">>}

(***************************************************************************)
(* JSON values: the descriptors of the tools, the cache file.  A value is  *)
(* a string (s, its characters), a number (n), an array (items, its        *)
(* elements), an object (items, its entries [k, c] in insertion order),    *)
(* null or undefined.                                                      *)
(***************************************************************************)
Str(s) == [t |-> "string", s |-> s, items |-> <<>>, n |-> 0]
Num(n) == [t |-> "number", s |-> <<>>, items |-> <<>>, n |-> n]
Arr(xs) == [t |-> "array", s |-> <<>>, items |-> xs, n |-> 0]
Obj(entries) == [t |-> "object", s |-> <<>>, items |-> entries, n |-> 0]
Null == [t |-> "null", s |-> <<>>, items |-> <<>>, n |-> 0]
Bool(b) == [t |-> "boolean", s |-> <<>>, items |-> <<>>, n |-> IF b THEN 1 ELSE 0]
Undef == [t |-> "undefined", s |-> <<>>, items |-> <<>>, n |-> 0]

\* value[key]
get(value, key) ==
  IF value.t = "object" /\ \E i \in 1..Len(value.items) : value.items[i].k = key
  THEN value.items[CHOOSE i \in 1..Len(value.items) :
                     /\ value.items[i].k = key
                     /\ \A j \in (i + 1)..Len(value.items) : value.items[j].k # key].c
  ELSE Undef

\* JSON.parse(JSON.stringify(value)): an undefined member of an object is
\* dropped, an undefined element of an array becomes null
RECURSIVE jsonRoundTrip(_)
jsonRoundTrip(value) ==
  CASE value.t = "array" ->
         Arr([i \in 1..Len(value.items) |->
                IF value.items[i].t = "undefined" THEN Null
                ELSE jsonRoundTrip(value.items[i])])
    [] value.t = "object" ->
         LET kept == SelectSeq(value.items, LAMBDA e : e.c.t # "undefined") IN
         Obj([i \in 1..Len(kept) |-> [k |-> kept[i].k, c |-> jsonRoundTrip(kept[i].c)]])
    [] OTHER -> value

(***************************************************************************)
(* State.                                                                  *)
(*   client, initPromise, isInitialized: the fields of ZaiMcpClient        *)
(*     (client: 0 is null, else the transport session it holds;            *)
(*      initPromise: 0 is null, else the _doInit attempt it is)            *)
(*   doInit[a]: the a-th _doInit() call: unused, awaiting create(),        *)
(*     awaiting registerManual(), or settled (its outcome is handed to     *)
(*     the callers awaiting it when it settles)                            *)
(*   session[a]: the transport session made by UtcpClient.create() in      *)
(*     attempt a, as the transport sees it                                 *)
(*   call[t]: the public call task t is in (callTool or close): its        *)
(*     position (pc), its locals (maxRetries, attempt), the promise it     *)
(*     awaits, the session its last invoke used, the transport close it    *)
(*     raced, the invokes it has made, the teardowns (this.close() in the  *)
(*     catch block) and the backoff sleeps of its callTool, and what it    *)
(*     returned or raised                                                  *)
(***************************************************************************)
VARIABLES client, initPromise, isInitialized, doInit, session, call

vars == <<client, initPromise, isInitialized, doInit, session, call>>

(***************************************************************************)
(* The environment of the process and the arguments of the calls.          *)
(*   env: process.env                                                      *)
(*   toolName[t]: the toolName argument of the callTool task t is in       *)
(*   now: Date.now()                                                       *)
(*   cacheFile: the file at getToolCachePath()                             *)
(*   frame[t]: the locals of the listTools / getTool / resolveToolName /   *)
(*     callToolRaw task t is in (tools, and where they came from: source), *)
(*     what its current listTools has got (got), the readFile calls of     *)
(*     that listTools (reads), the getTools calls (discoveries) and the    *)
(*     listTools(true) calls (forced) of the task, the options of the      *)
(*     `tools` command (full, filter) and what the command has handed to   *)
(*     outputSuccess (output); for the callToolRaw of the `call` command,  *)
(*     the catalog its resolveToolName took the name from (resolvedIn)     *)
(***************************************************************************)
VARIABLES env, toolName, now, cacheFile, frame

(***************************************************************************)
(* What the callers of the library hold.                                   *)
(*   redact: a call of redactSecrets / redactTool: the heap of the caller  *)
(*     (heap), the value handed in (input, an address), the heap as it     *)
(*     was at the call (before), the value returned (output, an address)   *)
(*   peers: the clients of other processes that share a cache directory    *)
(*   slept: the delays callTool has slept, in order                        *)
(***************************************************************************)
VARIABLES redact, peers, slept

(***************************************************************************)
(*   toolResult: what the transport's callTool last returned (raw) and     *)
(*     what ZaiMcpClient.callTool returned for it (returned)               *)
(*   tree: a call of collectTreeSnapshots (repo tree --depth n): its       *)
(*     arguments, its locals queue, seen and snapshots, and the            *)
(*     getRepoStructure calls it has made                                  *)
(***************************************************************************)
VARIABLES toolResult, tree

\* what the client's own steps leave alone
others == <<env, toolName, now, cacheFile, frame, redact, peers, slept, toolResult, tree>>

NoResult == [kind |-> "none", cls |-> "none", cause |-> "none", from |-> "none"]
Returned == [kind |-> "ok", cls |-> "none", cause |-> "none", from |-> "none"]
Raised(cls, cause, from) == [kind |-> "error", cls |-> cls, cause |-> cause, from |-> from]

\* a task that is in no call
Idle ==
  [pc |-> "idle", op |-> "none", maxRetries |-> 0, attempt |-> 0, invokes |-> 0,
   awaited |-> 0, initError |-> "none", usedSess |-> 0, closeTarget |-> 0,
   closeFate |-> "none", lastErr |-> "none", teardowns |-> 0, sleeps |-> 0,
   result |-> NoResult]

\* a task that is in no listTools / getTool / resolveToolName / callToolRaw
NoFrame ==
  [op |-> "none", id |-> <<>>, refresh |-> FALSE, pass |-> 0, tools |-> <<>>,
   source |-> "none", got |-> "none", reads |-> 0, discoveries |-> 0, forced |-> 0, wrote |-> "none",
   name |-> undefined, message |-> <<>>,
   full |-> FALSE, filter |-> undefined, output |-> Undef, resolvedIn |-> <<>>]

\* no file at getToolCachePath()
NoFile == [kind |-> "absent", data |-> Null]

\* no call of the redactor
NoRedaction ==
  [op |-> "none", heap |-> <<>>, input |-> 0, before |-> <<>>, output |-> 0,
   apiKey |-> undefined, mutated |-> 0]

\* no result of a tool yet
NoToolResult == [raw |-> Undef, returned |-> Undef]

\* no call of collectTreeSnapshots
NoTree ==
  [pc |-> "none", repo |-> "none", basePath |-> undefined, depth |-> 0, queue |-> <<>>,
   seen |-> {}, snapshots |-> <<>>, current |-> [path |-> <<>>, level |-> 0],
   fetched |-> <<>>]

\* no command of the CLI under way
Unasked ==
  /\ toolResult = NoToolResult
  /\ tree = NoTree

\* nothing else going on around the client
Alone ==
  /\ redact = NoRedaction
  /\ peers = <<>>
  /\ slept = <<>>
  /\ Unasked

\* a client as its constructor leaves it, and no call begun
NewClient ==
  /\ client = 0
  /\ initPromise = 0
  /\ isInitialized = FALSE
  /\ doInit = [a \in AttemptIds |-> "unused"]
  /\ session = [a \in AttemptIds |-> "none"]
  /\ call = [t \in Tasks |-> Idle]
  /\ toolName = [t \in Tasks |-> <<>>]
  /\ frame = [t \in Tasks |-> NoFrame]
  /\ now = 0

Init ==
  /\ NewClient
  /\ Alone
  /\ env = NoEnv
  /\ cacheFile = NoFile

Unused == {a \in AttemptIds : doInit[a] = "unused"}
InFlight == {a \in AttemptIds : doInit[a] \in {"creating", "registering"}}
Live == {a \in AttemptIds : session[a] = "live"}

(***************************************************************************)
(* init(): c is the caller's record as the caller has left it; the caller  *)
(* then awaits the promise init() returned (awaited = 0: init() returned   *)
(* at once).  A new attempt runs _doInit() up to its first await, the      *)
(* call of UtcpClient.create().                                            *)
(***************************************************************************)
initNoSingleFlight(t, c) ==
  IF isInitialized
  THEN /\ call' = [call EXCEPT ![t] = [c EXCEPT !.pc = "init", !.awaited = 0]]
       /\ UNCHANGED <<initPromise, doInit>>
  ELSE /\ Unused # {}
       /\ LET a == CHOOSE x \in Unused : \A y \in Unused : x <= y IN
          /\ initPromise' = a
          /\ doInit' = [doInit EXCEPT ![a] = "creating"]
          /\ call' = [call EXCEPT ![t] = [c EXCEPT !.pc = "init", !.awaited = a]]

init(t, c) ==
  IF isInitialized
  THEN /\ call' = [call EXCEPT ![t] = [c EXCEPT !.pc = "init", !.awaited = 0]]
       /\ UNCHANGED <<initPromise, doInit>>
  ELSE IF initPromise # 0
  THEN /\ call' = [call EXCEPT ![t] = [c EXCEPT !.pc = "init", !.awaited = initPromise]]
       /\ UNCHANGED <<initPromise, doInit>>
  ELSE /\ Unused # {}
       /\ LET a == CHOOSE x \in Unused : \A y \in Unused : x <= y IN
          /\ initPromise' = a
          /\ doInit' = [doInit EXCEPT ![a] = "creating"]
          /\ call' = [call EXCEPT ![t] = [c EXCEPT !.pc = "init", !.awaited = a]]

(***************************************************************************)
(* _doInit(), after its awaits.  When the promise of attempt a settles,    *)
(* every caller awaiting it gets the outcome (error = "none": resolved).   *)
(***************************************************************************)
settle(a, error) ==
  [t \in Tasks |->
     IF call[t].pc = "init" /\ call[t].awaited = a
     THEN [call[t] EXCEPT !.awaited = 0, !.initError = error]
     ELSE call[t]]

\* UtcpClient.create() returned: this.client = ..., registerManual is called
CreateReturns(a) ==
  /\ doInit[a] = "creating"
  /\ session' = [session EXCEPT ![a] = "live"]
  /\ client' = a
  /\ doInit' = [doInit EXCEPT ![a] = "registering"]
  /\ UNCHANGED <<initPromise, isInitialized, call>>

\* the catch block of _doInit
doInitCatch(a, e) ==
  /\ initPromise' = 0
  /\ doInit' = [doInit EXCEPT ![a] = "settled"]
  /\ call' = settle(a, e)

CreateRaises(a, e) ==
  /\ doInit[a] = "creating"
  /\ doInitCatch(a, e)
  /\ UNCHANGED <<client, isInitialized, session>>

\* registerManual returned {success: true}
RegisterReturns(a) ==
  /\ doInit[a] = "registering"
  /\ isInitialized' = TRUE
  /\ doInit' = [doInit EXCEPT ![a] = "settled"]
  /\ call' = settle(a, "none")
  /\ UNCHANGED <<client, initPromise, session>>

\* registerManual returned {success: false, errors}: the ApiError thrown in the try
RegisterFailsWith(a, e) ==
  /\ doInit[a] = "registering"
  /\ doInitCatch(a, e)
  /\ UNCHANGED <<client, isInitialized, session>>

RegisterFails(a) == RegisterFailsWith(a, RegisterFailure)

RegisterRaises(a, e) ==
  /\ doInit[a] = "registering"
  /\ doInitCatch(a, e)
  /\ UNCHANGED <<client, isInitialized, session>>

(***************************************************************************)
(* close(timeoutMs), up to its await: c is the caller's record.  With a    *)
(* client, client.close() is called and raced against the timer; what the  *)
(* transport will do with that call (closeFate) is the transport's choice. *)
(* Without one, close() returns at once.                                   *)
(***************************************************************************)
CloseFates == {"resolves", "rejects", "hangs"}

close(t, c, after) ==
  IF client # 0
  THEN \E fate \in CloseFates :
         call' = [call EXCEPT ![t] =
                    [c EXCEPT !.pc = "closing", !.closeTarget = client, !.closeFate = fate]]
  ELSE call' = [call EXCEPT ![t] =
                  [c EXCEPT !.pc = after, !.closeTarget = 0,
                            !.sleeps = IF after = "sleep" THEN @ + 1 ELSE @]]

\* the three assignments after the race
closeClears ==
  /\ client' = 0
  /\ isInitialized' = FALSE
  /\ initPromise' = 0

\* what the caller of close() does once close() has returned or raised:
\* callTool swallows a raise (.catch(() => {})) and sleeps; a public close()
\* hands the outcome to its caller
afterClose(t, raised) ==
  IF call[t].op = "callTool"
  THEN call' = [call EXCEPT ![t].pc = "sleep", ![t].closeTarget = 0, ![t].closeFate = "none",
                            ![t].sleeps = @ + 1]
  ELSE call' = [call EXCEPT ![t].pc = "done", ![t].closeTarget = 0,
                            ![t].result = IF raised THEN Raised("Error", "none", "close")
                                          ELSE Returned]

\* client.close() resolved first
CloseResolves(t) ==
  /\ call[t].pc = "closing"
  /\ call[t].closeFate = "resolves"
  /\ session' = [session EXCEPT ![call[t].closeTarget] = "closed"]
  /\ closeClears
  /\ afterClose(t, FALSE)
  /\ UNCHANGED doInit

\* the timer resolved first: setTimeout(resolve, timeoutMs)
CloseTimesOutNever(t) ==
  /\ FALSE
  /\ UNCHANGED vars

CloseTimesOut(t) ==
  /\ call[t].pc = "closing"
  /\ call[t].closeFate = "hangs"
  /\ closeClears
  /\ afterClose(t, FALSE)
  /\ UNCHANGED <<doInit, session>>

\* client.close() rejected first: the race rejects, the await raises and the
\* assignments after it are skipped
CloseRejects(t) ==
  /\ call[t].pc = "closing"
  /\ call[t].closeFate = "rejects"
  /\ afterClose(t, TRUE)
  /\ UNCHANGED <<client, isInitialized, initPromise, doInit, session>>

(***************************************************************************)
(* getRetryCount(toolName)                                                 *)
(***************************************************************************)
getRetryCountZeroIsUnset(name) ==
  LET globalRetries == parseInt(orElse(env.ZAI_MCP_RETRY_COUNT, <<"0">>)) IN
  IF Includes(name, sDotVisionDot)
  THEN LET visionRetriesRaw == orElse(env.ZAI_MCP_VISION_RETRY_COUNT, env.Z_AI_RETRY_COUNT) IN
       IF visionRetriesRaw # undefined
       THEN LET parsed == parseInt(visionRetriesRaw) IN
            IF isFinite(parsed) /\ parsed.n # 0 THEN parsed.n ELSE 2
       ELSE 2
  ELSE IF isFinite(globalRetries) THEN globalRetries.n ELSE 0

getRetryCount(name) ==
  LET globalRetries == parseInt(orElse(env.ZAI_MCP_RETRY_COUNT, <<"0">>)) IN
  IF Includes(name, sDotVisionDot)
  THEN LET visionRetriesRaw == orElse(env.ZAI_MCP_VISION_RETRY_COUNT, env.Z_AI_RETRY_COUNT) IN
       IF visionRetriesRaw # undefined
       THEN LET parsed == parseInt(visionRetriesRaw) IN
            IF isFinite(parsed) THEN parsed.n ELSE 0
       ELSE 2
  ELSE IF isFinite(globalRetries) THEN globalRetries.n ELSE 0

(***************************************************************************)
(* callTool(toolName, args); maxRetries is getRetryCount(toolName).        *)
(***************************************************************************)
StartCallTool(t, n) ==
  /\ call[t].pc = "idle"
  /\ init(t, [Idle EXCEPT !.op = "callTool", !.maxRetries = n])
  /\ UNCHANGED <<client, isInitialized, session>>

\* after `await this.init()`: a rejected attempt raises out of callTool (the
\* await is outside the try); then the null test; then client.callTool is called
InitSettles(t) ==
  /\ call[t].pc = "init"
  /\ call[t].op = "callTool"
  /\ call[t].awaited = 0
  /\ IF call[t].initError # "none"
     THEN call' = [call EXCEPT ![t].pc = "done", ![t].initError = "none",
                     ![t].usedSess = 0, ![t].lastErr = "none",
                     ![t].result = Raised(DoInitError[call[t].initError],
                                           call[t].initError, "init")]
     ELSE IF client = 0
     THEN call' = [call EXCEPT ![t].pc = "done", ![t].usedSess = 0, ![t].lastErr = "none",
                     ![t].result = Raised("ApiError", "none", "noclient")]
     ELSE call' = [call EXCEPT ![t].pc = "invoke", ![t].usedSess = client,
                     ![t].invokes = @ + 1]
  /\ UNCHANGED <<client, initPromise, isInitialized, doInit, session>>

InvokeReturns(t) ==
  /\ call[t].pc = "invoke"
  /\ call' = [call EXCEPT ![t].pc = "done", ![t].usedSess = 0, ![t].lastErr = "none",
                          ![t].result = Returned]
  /\ UNCHANGED <<client, initPromise, isInitialized, doInit, session>>

\* the test that sends a failed attempt round the loop again
retryOffByOne(attempt, maxRetries, e) ==
  attempt < maxRetries /\ Retriable[e]

retryOnceMore(attempt, maxRetries, e) ==
  attempt <= maxRetries + 1 /\ Retriable[e]

retryAnyError(attempt, maxRetries, e) ==
  attempt <= maxRetries

retry(attempt, maxRetries, e) ==
  attempt <= maxRetries /\ Retriable[e]

\* the catch block of callTool
InvokeRaises(t, e) ==
  /\ call[t].pc = "invoke"
  /\ LET c == [call[t] EXCEPT !.attempt = @ + 1, !.lastErr = e]
     IN IF retry(c.attempt, c.maxRetries, e)
        THEN close(t, [c EXCEPT !.teardowns = @ + 1], "sleep")
        ELSE call' = [call EXCEPT ![t] =
                        [c EXCEPT !.pc = "done", !.usedSess = 0, !.lastErr = "none",
                                  !.result = Raised(CallToolError[e], e, "invoke")]]
  /\ UNCHANGED <<client, initPromise, isInitialized, doInit, session>>

\* the backoff sleep is over: round the loop, `await this.init()`
SleepEnds(t) ==
  /\ call[t].pc = "sleep"
  /\ init(t, call[t])
  /\ UNCHANGED <<client, isInitialized, session>>

(***************************************************************************)
(* The delay of the backoff sleep.  The three settings are read from the   *)
(* environment when the module is loaded; Math.random() is a fraction      *)
(* num / den in [0, 1).                                                    *)
(***************************************************************************)
DEFAULT_RETRY_BASE_MS == parseInt(orElse(env.ZAI_MCP_RETRY_BASE_MS, <<"5","0","0">>))
DEFAULT_RETRY_MAX_MS == parseInt(orElse(env.ZAI_MCP_RETRY_MAX_MS, <<"8","0","0","0">>))
DEFAULT_RETRY_JITTER_MS == parseInt(orElse(env.ZAI_MCP_RETRY_JITTER_MS, <<"2","5","0">>))

Randoms == {[num |-> 0, den |-> 1], [num |-> 1, den |-> 2], [num |-> 999, den |-> 1000]}

\* Math.min(a, b)
min(a, b) ==
  IF a.nan \/ b.nan THEN NaN ELSE Number(IF a.n <= b.n THEN a.n ELSE b.n)

\* Math.floor(random * DEFAULT_RETRY_JITTER_MS)
jitter(random) ==
  IF DEFAULT_RETRY_JITTER_MS.nan THEN NaN
  ELSE Number((random.num * DEFAULT_RETRY_JITTER_MS.n) \div random.den)

backoffUncapped(attempt) ==
  IF DEFAULT_RETRY_BASE_MS.nan \/ DEFAULT_RETRY_MAX_MS.nan THEN NaN
  ELSE Number(DEFAULT_RETRY_BASE_MS.n * 2 ^ (attempt - 1))

\* Math.min(DEFAULT_RETRY_MAX_MS, DEFAULT_RETRY_BASE_MS * Math.pow(2, attempt - 1))
backoff(attempt) ==
  IF DEFAULT_RETRY_BASE_MS.nan THEN NaN
  ELSE min(DEFAULT_RETRY_MAX_MS, Number(DEFAULT_RETRY_BASE_MS.n * 2 ^ (attempt - 1)))

\* backoff + jitter, the argument of sleep
delay(attempt, random) ==
  IF backoff(attempt).nan \/ jitter(random).nan THEN NaN
  ELSE Number(backoff(attempt).n + jitter(random).n)

\* the backoff sleep, its delay noted
Sleeps(t, random) ==
  /\ SleepEnds(t)
  /\ slept' = Append(slept, [attempt |-> call[t].attempt, ms |-> delay(call[t].attempt, random)])
  /\ UNCHANGED <<env, toolName, now, cacheFile, frame, redact, peers, toolResult, tree>>

(***************************************************************************)
(* close() called by the user of the client.                               *)
(***************************************************************************)
StartClose(t) ==
  /\ call[t].pc = "idle"
  /\ close(t, [Idle EXCEPT !.op = "close", !.result = Returned], "done")
  /\ UNCHANGED <<client, initPromise, isInitialized, doInit, session>>

(***************************************************************************)
(* redact.ts                                                               *)
(***************************************************************************)
REDACT_KEYS_SNAKE ==
  {"authorization", "api_key", "access_token", "token", "Z_AI_API_KEY", "ZAI_API_KEY"}

REDACT_KEYS ==
  {"authorization", "Authorization", "api_key", "apiKey", "access_token", "token",
   "Z_AI_API_KEY", "ZAI_API_KEY"}

sREDACTED == <<"[","R","E","D","A","C","T","E","D","]">>
sBearer == <<"B","e","a","r","e","r">>
sBearerREDACTED == <<"B","e","a","r","e","r"," ","[","R","E","D","A","C","T","E","D","]">>

\* value.replaceAll(pat, rep), pat not empty
RECURSIVE replaceAll(_, _, _)
replaceAll(s, pat, rep) ==
  IF Len(s) < Len(pat) THEN s
  ELSE IF SubSeq(s, 1, Len(pat)) = pat
       THEN rep \o replaceAll(SubSeq(s, Len(pat) + 1, Len(s)), pat, rep)
       ELSE <<s[1]>> \o replaceAll(Tail(s), pat, rep)

\* how many characters at the head of s are (ws) or are not (~ws) white space
RECURSIVE run(_, _)
run(s, ws) ==
  IF s # <<>> /\ ((s[1] = " ") = ws) THEN 1 + run(Tail(s), ws) ELSE 0

\* the length of the match of /^Bearer\s+\S+/ in s, 0 when there is none
bearerMatch(s) ==
  IF Len(s) >= Len(sBearer) /\ SubSeq(s, 1, Len(sBearer)) = sBearer
  THEN LET rest == SubSeq(s, Len(sBearer) + 1, Len(s))
           spaces == run(rest, TRUE)
           token == run(SubSeq(rest, spaces + 1, Len(rest)), FALSE)
       IN IF spaces > 0 /\ token > 0 THEN Len(sBearer) + spaces + token ELSE 0
  ELSE 0

\* String.prototype.replace with a string pattern: the first occurrence only
redactStringFirstOnly(value, apiKey) ==
  LET at == {i \in 1..Len(value) : apiKey \notin {undefined, <<>>}
                                    /\ i + Len(apiKey) - 1 <= Len(value)
                                    /\ SubSeq(value, i, i + Len(apiKey) - 1) = apiKey}
      result == IF at # {}
                THEN LET i == CHOOSE i \in at : \A j \in at : i <= j IN
                     SubSeq(value, 1, i - 1) \o sREDACTED
                       \o SubSeq(value, i + Len(apiKey), Len(value))
                ELSE value
  IN IF bearerMatch(result) > 0
     THEN sBearerREDACTED \o SubSeq(result, bearerMatch(result) + 1, Len(result))
     ELSE result

redactString(value, apiKey) ==
  LET result == IF apiKey \notin {undefined, <<>>} /\ Includes(value, apiKey)
                THEN replaceAll(value, apiKey, sREDACTED)
                ELSE value
  IN IF bearerMatch(result) > 0
     THEN sBearerREDACTED \o SubSeq(result, bearerMatch(result) + 1, Len(result))
     ELSE result

RECURSIVE redactSecrets(_, _)
redactSecrets(value, apiKey) ==
  CASE value.t = "string" -> Str(redactString(value.s, apiKey))
    [] value.t = "array" ->
         Arr([i \in 1..Len(value.items) |-> redactSecrets(value.items[i], apiKey)])
    [] value.t = "object" ->
         Obj([i \in 1..Len(value.items) |->
                IF value.items[i].k \in REDACT_KEYS
                THEN [k |-> value.items[i].k, c |-> Str(sREDACTED)]
                ELSE [k |-> value.items[i].k, c |-> redactSecrets(value.items[i].c, apiKey)]])
    [] OTHER -> value

redactTool(tool) ==
  redactSecrets(jsonRoundTrip(tool), orElse(env.Z_AI_API_KEY, env.ZAI_API_KEY))

(***************************************************************************)
(* The same functions over the heap, where an array and an object are      *)
(* cells that can be shared and changed.  A heap is a sequence of cells,   *)
(* an address an index into it.  A cell is a value whose items are         *)
(* [k, c]: c the address of the element or member, k the key of a member   *)
(* ("" in an array).  Strings, numbers, null and undefined are cells that  *)
(* nothing can change.                                                     *)
(***************************************************************************)
\* a new cell
alloc(h, cell) == [heap |-> Append(h, cell), at |-> Len(h) + 1]

\* the value built in the heap, children first
RECURSIVE store(_, _)
RECURSIVE storeAll(_, _)
store(h, value) ==
  CASE value.t = "array" ->
         LET r == storeAll(h, [i \in 1..Len(value.items) |-> [k |-> "", c |-> value.items[i]]]) IN
         alloc(r.heap, [value EXCEPT !.items = r.items])
    [] value.t = "object" ->
         LET r == storeAll(h, value.items) IN
         alloc(r.heap, [value EXCEPT !.items = r.items])
    [] OTHER -> alloc(h, value)

storeAll(h, entries) ==
  IF entries = <<>> THEN [heap |-> h, items |-> <<>>]
  ELSE LET a == store(h, Head(entries).c)
           rest == storeAll(a.heap, Tail(entries))
       IN [heap |-> rest.heap, items |-> <<[k |-> Head(entries).k, c |-> a.at]>> \o rest.items]

\* the value an address holds
RECURSIVE valueAt(_, _)
valueAt(h, at) ==
  LET cell == h[at] IN
  CASE cell.t = "array" ->
         Arr([i \in 1..Len(cell.items) |-> valueAt(h, cell.items[i].c)])
    [] cell.t = "object" ->
         Obj([i \in 1..Len(cell.items) |->
                [k |-> cell.items[i].k, c |-> valueAt(h, cell.items[i].c)]])
    [] OTHER -> cell

\* the cells a value is made of, and those of them that can be changed
RECURSIVE reach(_, _)
reach(h, at) ==
  {at} \cup UNION {reach(h, h[at].items[i].c) : i \in 1..Len(h[at].items)}

containers(h, at) == {a \in reach(h, at) : h[a].t \in {"array", "object"}}

\* redactSecrets(value, apiKey), value the cell at an address: a new string,
\* a new array (value.map), a new object (output), or the value itself
RECURSIVE redactSecretsAt(_, _, _)
RECURSIVE redactEntries(_, _, _, _)
redactEntries(h, entries, apiKey, keyed) ==
  IF entries = <<>> THEN [heap |-> h, items |-> <<>>]
  ELSE LET e == Head(entries)
           child == IF keyed /\ e.k \in REDACT_KEYS
                    THEN alloc(h, Str(sREDACTED))
                    ELSE redactSecretsAt(h, e.c, apiKey)
           rest == redactEntries(child.heap, Tail(entries), apiKey, keyed)
       IN [heap |-> rest.heap, items |-> <<[k |-> e.k, c |-> child.at]>> \o rest.items]

redactSecretsInPlace(h, at, apiKey) ==
  LET value == h[at] IN
  CASE value.t = "string" -> alloc(h, Str(redactString(value.s, apiKey)))
    [] value.t \in {"array", "object"} ->
         LET r == redactEntries(h, value.items, apiKey, value.t = "object") IN
         [heap |-> [r.heap EXCEPT ![at].items = r.items], at |-> at]
    [] OTHER -> [heap |-> h, at |-> at]

redactSecretsAt(h, at, apiKey) ==
  LET value == h[at] IN
  CASE value.t = "string" -> alloc(h, Str(redactString(value.s, apiKey)))
    [] value.t = "array" ->
         LET r == redactEntries(h, value.items, apiKey, FALSE) IN
         alloc(r.heap, [t |-> "array", s |-> <<>>, items |-> r.items, n |-> 0])
    [] value.t = "object" ->
         LET r == redactEntries(h, value.items, apiKey, TRUE) IN
         alloc(r.heap, [t |-> "object", s |-> <<>>, items |-> r.items, n |-> 0])
    [] OTHER -> [heap |-> h, at |-> at]

\* redactTool(tool), tool the cell at an address: the clone is new cells
redactToolAt(h, at) ==
  LET clone == store(h, jsonRoundTrip(valueAt(h, at))) IN
  redactSecretsAt(clone.heap, clone.at, orElse(env.Z_AI_API_KEY, env.ZAI_API_KEY))

(***************************************************************************)
(* The tool cache.  Its configuration is read from the environment when    *)
(* the module is loaded.                                                   *)
(***************************************************************************)
TOOL_CACHE_VERSION == 1

sDefaultTtl == <<"8","6","4","0","0","0","0","0">>
sFalse == <<"f","a","l","s","e">>

DEFAULT_TOOL_CACHE_TTL_MS == parseInt(orElse(env.ZAI_MCP_TOOL_CACHE_TTL_MS, sDefaultTtl))

TOOL_CACHE_ENABLED ==
  toLowerCase(orElse(env.ZAI_MCP_TOOL_CACHE, <<"1">>)) \notin {<<"0">>, sFalse}

\* DEFAULT_TOOL_CACHE_TTL_MS <= 0 (false of NaN)
ttlNotPositive == isFinite(DEFAULT_TOOL_CACHE_TTL_MS) /\ DEFAULT_TOOL_CACHE_TTL_MS.n <= 0

\* the early returns of readToolsCache(refresh): null, no file read
bypassCacheIgnoresRefresh(refresh) == ~TOOL_CACHE_ENABLED \/ ttlNotPositive

bypassCache(refresh) == ~TOOL_CACHE_ENABLED \/ refresh \/ ttlNotPositive

Miss == [hit |-> FALSE, tools |-> <<>>]
Hit(tools) == [hit |-> TRUE, tools |-> tools]

\* !data
falsy(value) ==
  \/ value.t \in {"null", "undefined"}
  \/ value.t = "string" /\ value.s = <<>>
  \/ value.t = "number" /\ value.n = 0

\* data.timestamp || 0
timestampOf(data) ==
  IF get(data, "timestamp").t = "number" THEN get(data, "timestamp").n ELSE 0

\* the try block of readToolsCache: readFile, JSON.parse, the tests
readCacheFileNoExpiry ==
  IF cacheFile.kind # "json" THEN Miss
  ELSE LET data == cacheFile.data IN
       IF \/ falsy(data)
          \/ get(data, "version") # Num(TOOL_CACHE_VERSION)
          \/ get(data, "tools").t # "array"
       THEN Miss
       ELSE Hit(get(data, "tools").items)

readCacheFileAnyVersion ==
  IF cacheFile.kind # "json" THEN Miss
  ELSE LET data == cacheFile.data IN
       IF falsy(data) \/ get(data, "tools").t # "array"
       THEN Miss
       ELSE LET age == now - timestampOf(data) IN
            IF isFinite(DEFAULT_TOOL_CACHE_TTL_MS) /\ age > DEFAULT_TOOL_CACHE_TTL_MS.n
            THEN Miss
            ELSE Hit(get(data, "tools").items)

readCacheFile ==
  IF cacheFile.kind # "json" THEN Miss
  ELSE LET data == cacheFile.data IN
       IF \/ falsy(data)
          \/ get(data, "version") # Num(TOOL_CACHE_VERSION)
          \/ get(data, "tools").t # "array"
       THEN Miss
       ELSE LET age == now - timestampOf(data) IN
            IF isFinite(DEFAULT_TOOL_CACHE_TTL_MS) /\ age > DEFAULT_TOOL_CACHE_TTL_MS.n
            THEN Miss
            ELSE Hit(get(data, "tools").items)

\* the payload writeToolsCache hands to JSON.stringify
cachePayloadUnredacted(tools) ==
  Obj(<<[k |-> "version", c |-> Num(TOOL_CACHE_VERSION)],
        [k |-> "timestamp", c |-> Num(now)],
        [k |-> "tools", c |-> Arr(tools)]>>)

cachePayload(tools) ==
  Obj(<<[k |-> "version", c |-> Num(TOOL_CACHE_VERSION)],
        [k |-> "timestamp", c |-> Num(now)],
        [k |-> "tools", c |-> Arr([i \in 1..Len(tools) |-> redactTool(tools[i])])]>>)

\* what mkdir and writeFile do: both work, mkdir fails, writeFile fails with
\* the file untouched, writeFile fails with the file cut short
WriteOutcomes == {"ok", "mkdirFails", "writeFails", "writeTruncates"}

Garbage == [kind |-> "garbage", data |-> Null]

written(tools, io) ==
  CASE io = "ok" -> [kind |-> "json", data |-> jsonRoundTrip(cachePayload(tools))]
    [] io = "writeTruncates" -> Garbage
    [] OTHER -> cacheFile

(***************************************************************************)
(* The tools the transport discovers, and the identifiers asked for.       *)
(***************************************************************************)
sApiKey == <<"s","k","1">>

toolOcr ==
  Obj(<<[k |-> "name", c |-> Str(<<"z","a","i",".","v","i","s","i","o","n",".","o","c","r">>)],
        [k |-> "description", c |-> Str(<<"k","e","y"," ","s","k","1",".">>)],
        [k |-> "tool_call_template",
         c |-> Obj(<<[k |-> "headers",
                      c |-> Obj(<<[k |-> "Authorization", c |-> Str(<<"B","e","a","r","e","r"," ","s","k","1">>)]>>)],
                     [k |-> "auth", c |-> Str(<<"B","e","a","r","e","r"," "," ","t","o","k"," ","x">>)]>>)],
        [k |-> "outputs", c |-> Undef]>>)

toolWeb ==
  Obj(<<[k |-> "name", c |-> Str(<<"z","a","i",".","s","e","a","r","c","h",".","w","e","b">>)],
        [k |-> "tags", c |-> Arr(<<Str(<<"w","e","b">>), Undef>>)]>>)

toolBareOcr == Obj(<<[k |-> "name", c |-> Str(<<"o","c","r">>)]>>)

toolOtherOcr == Obj(<<[k |-> "name", c |-> Str(<<"x",".","o","c","r">>)]>>)

\* what client.getTools() can return
Catalogs == {<<toolOcr, toolBareOcr>>, <<toolOtherOcr, toolOcr>>, <<toolWeb>>, <<>>}

\* the identifiers resolved
ToolIds ==
  {<<"o","c","r">>, <<"v","i","s","i","o","n",".","o","c","r">>, <<"m","i","s","s","i","n","g">>}

(***************************************************************************)
(* getTool(toolName): one pass of exact-then-suffix matching over a        *)
(* catalog; the index of the entry found, 0 when there is none.            *)
(***************************************************************************)
endsWith(s, suffix) ==
  Len(s) >= Len(suffix) /\ SubSeq(s, Len(s) - Len(suffix) + 1, Len(s)) = suffix

nameOf(tool) == get(tool, "name").s

exactInNone(tools, id) == {}

exactIn(tools, id) == {i \in 1..Len(tools) : nameOf(tools[i]) = id}
suffixIn(tools, id) == {i \in 1..Len(tools) : endsWith(nameOf(tools[i]), <<".">> \o id)}

\* Array.prototype.find: the first
last(S) == CHOOSE i \in S : \A j \in S : i >= j

first(S) == CHOOSE i \in S : \A j \in S : i <= j

findFirstOfEither(tools, id) ==
  IF exactIn(tools, id) \cup suffixIn(tools, id) # {}
  THEN first(exactIn(tools, id) \cup suffixIn(tools, id))
  ELSE 0

find(tools, id) ==
  IF exactIn(tools, id) # {} THEN first(exactIn(tools, id))
  ELSE IF suffixIn(tools, id) # {} THEN first(suffixIn(tools, id))
  ELSE 0


Next ==
  \/ \E t \in Tasks, n \in Budgets : StartCallTool(t, n) /\ UNCHANGED others
  \/ \E t \in Tasks : StartClose(t) /\ UNCHANGED others
  \/ \E t \in Tasks : InitSettles(t) /\ UNCHANGED others
  \/ \E t \in Tasks : InvokeReturns(t) /\ UNCHANGED others
  \/ \E t \in Tasks, e \in InvokeErrors : InvokeRaises(t, e) /\ UNCHANGED others
  \/ \E t \in Tasks : SleepEnds(t) /\ UNCHANGED others
  \/ \E t \in Tasks : CloseResolves(t) /\ UNCHANGED others
  \/ \E t \in Tasks : CloseTimesOut(t) /\ UNCHANGED others
  \/ \E t \in Tasks : CloseRejects(t) /\ UNCHANGED others
  \/ \E a \in AttemptIds : CreateReturns(a) /\ UNCHANGED others
  \/ \E a \in AttemptIds, e \in RegisterErrors : CreateRaises(a, e) /\ UNCHANGED others
  \/ \E a \in AttemptIds : RegisterReturns(a) /\ UNCHANGED others
  \/ \E a \in AttemptIds : RegisterFails(a) /\ UNCHANGED others
  \/ \E a \in AttemptIds, e \in RegisterErrors : RegisterRaises(a, e) /\ UNCHANGED others

Spec == Init /\ [][Next]_vars

\* timers fire and the event loop runs every continuation that is ready
FairSpec == Spec /\ \A t \in Tasks : WF_vars(CloseTimesOut(t))

(***************************************************************************)
(* One caller, any environment: callTool(toolName, args) with the budget   *)
(* getRetryCount(toolName) reads from the environment, and every failure   *)
(* of the transport the model knows.                                       *)
(***************************************************************************)
Solo == "t1"

RetryInit ==
  /\ NewClient
  /\ Alone
  /\ env \in Envs
  /\ cacheFile = NoFile

CallToolNamed(name) ==
  /\ StartCallTool(Solo, getRetryCount(name))
  /\ toolName' = [toolName EXCEPT ![Solo] = name]
  /\ UNCHANGED <<env, now, cacheFile, frame, redact, peers, slept, toolResult, tree>>

RetryNext ==
  \/ \E name \in ToolNames : CallToolNamed(name)
  \/ InitSettles(Solo) /\ UNCHANGED others
  \/ InvokeReturns(Solo) /\ UNCHANGED others
  \/ \E e \in AllInvokeErrors : InvokeRaises(Solo, e) /\ UNCHANGED others
  \/ SleepEnds(Solo) /\ UNCHANGED others
  \/ CloseResolves(Solo) /\ UNCHANGED others
  \/ CloseTimesOut(Solo) /\ UNCHANGED others
  \/ CloseRejects(Solo) /\ UNCHANGED others
  \/ \E a \in AttemptIds : CreateReturns(a) /\ UNCHANGED others
  \/ \E a \in AttemptIds : RegisterReturns(a) /\ UNCHANGED others
  \/ \E a \in AttemptIds : RegisterFails(a) /\ UNCHANGED others

RetrySpec == RetryInit /\ [][RetryNext]_<<vars, others>>

(***************************************************************************)
(* listTools(refresh), up to its first await.  c and f are the caller's    *)
(* record and frame.  readToolsCache either returns null at once, and      *)
(* listTools goes on to `await this.init()`, or it calls fs.readFile.      *)
(***************************************************************************)
listTools(t, c, f, refresh) ==
  LET g == [f EXCEPT !.refresh = refresh, !.got = "none", !.reads = 0, !.wrote = "none"]
  IN IF bypassCache(refresh)
     THEN /\ init(t, c)
          /\ frame' = [frame EXCEPT ![t] = g]
     ELSE /\ call' = [call EXCEPT ![t] = [c EXCEPT !.pc = "reading"]]
          /\ frame' = [frame EXCEPT ![t] = [g EXCEPT !.reads = 1]]
          /\ UNCHANGED <<initPromise, doInit>>

sUnknownTool == <<"U","n","k","n","o","w","n"," ","t","o","o","l",":"," ">>

\* getTool found the tool called name: resolveToolName returns the name,
\* showTool prints the tool, callToolRaw calls callTool(name, args)
resolved(t, f, name) ==
  IF f.op = "callToolRaw"
  THEN /\ init(t, [Idle EXCEPT !.op = "callTool", !.maxRetries = getRetryCount(name)])
       /\ toolName' = [toolName EXCEPT ![t] = name]
       /\ frame' = [frame EXCEPT ![t] = [f EXCEPT !.name = name]]
  ELSE /\ call' = [call EXCEPT ![t].pc = "done", ![t].usedSess = 0, ![t].result = Returned]
       /\ frame' = [frame EXCEPT ![t] =
                      [f EXCEPT !.name = name,
                                !.output = IF f.op = "showTool"
                                           THEN redactTool(f.tools[find(f.tools, f.id)])
                                           ELSE Undef]]
       /\ UNCHANGED <<initPromise, doInit, toolName>>

\* getTool found no tool in its second pass and returned undefined:
\* resolveToolName (and so callToolRaw) throws an ApiError, showTool a
\* ValidationError
unresolved(t, f) ==
  /\ call' = [call EXCEPT ![t].pc = "done", ![t].usedSess = 0,
                ![t].result = Raised(IF f.op = "showTool" THEN "ValidationError" ELSE "ApiError",
                                     "none", "resolve")]
  /\ frame' = [frame EXCEPT ![t] = [f EXCEPT !.message = sUnknownTool \o f.id]]
  /\ UNCHANGED <<initPromise, doInit, toolName>>

\* the `tools` command: tools.filter(...) when a filter is given
filtered(f) ==
  IF f.filter \in {undefined, <<>>} THEN f.tools
  ELSE SelectSeq(f.tools,
                 LAMBDA tool : Includes(toLowerCase(nameOf(tool)), toLowerCase(f.filter)))

\* what the `tools` command hands to outputSuccess
toolsOutputAsDiscovered(f) ==
  IF f.full
  THEN Arr(filtered(f))
  ELSE Arr([i \in 1..Len(filtered(f)) |-> Str(nameOf(filtered(f)[i]))])

toolsOutput(f) ==
  IF f.full
  THEN Arr([i \in 1..Len(filtered(f)) |-> redactTool(filtered(f)[i])])
  ELSE Arr([i \in 1..Len(filtered(f)) |-> Str(nameOf(filtered(f)[i]))])

\* listTools returns f.tools to its caller: the user of the client or the
\* `tools` command, or getTool, which matches and on no match calls
\* listTools(true), once
listReturnNoRefresh(t, f) ==
  IF f.op \in {"listTools", "tools"}
  THEN /\ call' = [call EXCEPT ![t].pc = "done", ![t].usedSess = 0, ![t].result = Returned]
       /\ frame' = [frame EXCEPT ![t] =
                      [f EXCEPT !.output = IF f.op = "tools" THEN toolsOutput(f) ELSE Undef]]
       /\ UNCHANGED <<initPromise, doInit, toolName>>
  ELSE IF find(f.tools, f.id) # 0
  THEN resolved(t, f, nameOf(f.tools[find(f.tools, f.id)]))
  ELSE unresolved(t, f)

listReturn(t, f) ==
  IF f.op \in {"listTools", "tools"}
  THEN /\ call' = [call EXCEPT ![t].pc = "done", ![t].usedSess = 0, ![t].result = Returned]
       /\ frame' = [frame EXCEPT ![t] =
                      [f EXCEPT !.output = IF f.op = "tools" THEN toolsOutput(f) ELSE Undef]]
       /\ UNCHANGED <<initPromise, doInit, toolName>>
  ELSE IF find(f.tools, f.id) # 0
  THEN resolved(t, f, nameOf(f.tools[find(f.tools, f.id)]))
  ELSE IF f.pass = 1
  THEN /\ listTools(t, [call[t] EXCEPT !.usedSess = 0],
                    [f EXCEPT !.pass = 2, !.forced = @ + 1], TRUE)
       /\ UNCHANGED toolName
  ELSE unresolved(t, f)

StartListTools(t, refresh) ==
  /\ call[t].pc = "idle"
  /\ listTools(t, [Idle EXCEPT !.op = "listTools"], [NoFrame EXCEPT !.op = "listTools"], refresh)
  /\ UNCHANGED <<client, isInitialized, session, env, toolName, now, cacheFile, redact, peers, slept, toolResult, tree>>

\* the options of the `tools` command
ToolsOptions ==
  {[full |-> FALSE, filter |-> undefined], [full |-> TRUE, filter |-> undefined],
   [full |-> TRUE, filter |-> <<"O","C","R">>]}

\* the `tools` command (listTools of the CLI), down to client.listTools()
StartTools(t, options) ==
  /\ call[t].pc = "idle"
  /\ listTools(t, [Idle EXCEPT !.op = "listTools"],
               [NoFrame EXCEPT !.op = "tools", !.full = options.full,
                               !.filter = options.filter], FALSE)
  /\ UNCHANGED <<client, isInitialized, session, env, toolName, now, cacheFile, redact, peers, slept, toolResult, tree>>

\* resolveToolName(id), callToolRaw(id, args), showTool(id): getTool(id),
\* which begins with listTools()
ResolveOps == {"resolveToolName", "callToolRaw", "showTool"}

StartGetTool(t, op, id) ==
  /\ call[t].pc = "idle"
  /\ listTools(t, [Idle EXCEPT !.op = "listTools"],
               [NoFrame EXCEPT !.op = op, !.id = id, !.pass = 1], FALSE)
  /\ UNCHANGED <<client, isInitialized, session, env, toolName, now, cacheFile, redact, peers, slept, toolResult, tree>>

\* fs.readFile is over: the rest of readToolsCache, then `if (cached)`
ReadCacheEndsDiscovers(t) ==
  /\ call[t].pc = "reading"
  /\ init(t, call[t])
  /\ UNCHANGED <<frame, toolName>>
  /\ UNCHANGED <<client, isInitialized, session, env, now, cacheFile, redact, peers, slept, toolResult, tree>>

ReadCacheEnds(t) ==
  /\ call[t].pc = "reading"
  /\ IF readCacheFile.hit
     THEN listReturn(t, [frame[t] EXCEPT !.tools = readCacheFile.tools, !.source = "cache",
                                         !.got = "cache"])
     ELSE /\ init(t, call[t])
          /\ UNCHANGED <<frame, toolName>>
  /\ UNCHANGED <<client, isInitialized, session, env, now, cacheFile, redact, peers, slept, toolResult, tree>>

\* after `await this.init()` in listTools: client.getTools() is called
ListToolsInitSettles(t) ==
  /\ call[t].pc = "init"
  /\ call[t].op = "listTools"
  /\ call[t].awaited = 0
  /\ IF call[t].initError # "none"
     THEN /\ call' = [call EXCEPT ![t].pc = "done", ![t].initError = "none",
                        ![t].result = Raised(DoInitError[call[t].initError],
                                              call[t].initError, "init")]
          /\ UNCHANGED frame
     ELSE IF client = 0
     THEN /\ call' = [call EXCEPT ![t].pc = "done",
                        ![t].result = Raised("ApiError", "none", "noclient")]
          /\ UNCHANGED frame
     ELSE /\ call' = [call EXCEPT ![t].pc = "getTools", ![t].usedSess = client]
          /\ frame' = [frame EXCEPT ![t].discoveries = @ + 1]
  /\ UNCHANGED <<client, initPromise, isInitialized, doInit, session, env, toolName, now, cacheFile, redact, peers, slept, toolResult, tree>>

\* client.getTools() returned: writeToolsCache(tools), which returns at
\* once or calls fs.mkdir
GetToolsReturns(t, tools) ==
  /\ call[t].pc = "getTools"
  /\ LET f == [frame[t] EXCEPT !.tools = tools, !.source = "live", !.got = "live"] IN
     IF ~TOOL_CACHE_ENABLED \/ ttlNotPositive
     THEN listReturn(t, f)
     ELSE /\ call' = [call EXCEPT ![t].pc = "writing"]
          /\ frame' = [frame EXCEPT ![t] = f]
          /\ UNCHANGED <<initPromise, doInit, toolName>>
  /\ UNCHANGED <<client, isInitialized, session, env, now, cacheFile, redact, peers, slept, toolResult, tree>>

\* client.getTools() raised: listTools has no catch
GetToolsRaises(t, e) ==
  /\ call[t].pc = "getTools"
  /\ call' = [call EXCEPT ![t].pc = "done", ![t].usedSess = 0,
                ![t].result = Raised(Errors[e].cls, e, "getTools")]
  /\ UNCHANGED <<client, initPromise, isInitialized, doInit, session, others>>

\* writeToolsCache is over, whatever mkdir and writeFile did
afterWriteRaises(t, io) ==
  IF io = "ok"
  THEN listReturn(t, [frame[t] EXCEPT !.wrote = "ok"])
  ELSE /\ call' = [call EXCEPT ![t].pc = "done", ![t].usedSess = 0,
                     ![t].result = Raised("Error", "none", "write")]
       /\ frame' = [frame EXCEPT ![t].wrote = "failed"]
       /\ UNCHANGED <<initPromise, doInit, toolName>>

afterWrite(t, io) ==
  listReturn(t, [frame[t] EXCEPT !.wrote = IF io = "ok" THEN "ok" ELSE "failed"])

WriteCacheEnds(t, io) ==
  /\ call[t].pc = "writing"
  /\ cacheFile' = written(frame[t].tools, io)
  /\ afterWrite(t, io)
  /\ UNCHANGED <<client, isInitialized, session, env, now, redact, peers, slept, toolResult, tree>>

(***************************************************************************)
(* The clock.                                                              *)
(***************************************************************************)
Tick ==
  /\ now < MaxTime
  /\ now' = now + 1
  /\ UNCHANGED <<vars, env, toolName, cacheFile, frame, redact, peers, slept, toolResult, tree>>

(***************************************************************************)
(* The callers of listTools, resolveToolName, callToolRaw and showTool,    *)
(* under every configuration of the cache and every cache file the process *)
(* may find.                                                               *)
(***************************************************************************)
cacheEnv(cache, ttl) ==
  [NoEnv EXCEPT !.ZAI_MCP_TOOL_CACHE = cache, !.ZAI_MCP_TOOL_CACHE_TTL_MS = ttl,
                !.Z_AI_API_KEY = sApiKey]

CacheEnvs ==
  {cacheEnv(undefined, ttl) : ttl \in {undefined, <<"0">>, <<"-","1">>, <<"2">>, <<"x">>}}
  \cup {cacheEnv(cache, <<"2">>) : cache \in {<<"0">>, <<"F","a","l","s","e">>, <<"o","n">>}}

\* a cache file an earlier process wrote
cacheEntry(version, timestamp, tools) ==
  [kind |-> "json",
   data |-> Obj(<<[k |-> "version", c |-> version], [k |-> "timestamp", c |-> timestamp],
                  [k |-> "tools", c |-> tools]>>)]

redactedCatalog(tools) == Arr([i \in 1..Len(tools) |-> redactTool(tools[i])])

InitialCacheFiles ==
  {NoFile, Garbage, [kind |-> "json", data |-> Null],
   cacheEntry(Num(2), Num(0), redactedCatalog(<<toolWeb>>)),
   cacheEntry(Num(TOOL_CACHE_VERSION), Num(0), Str(<<"x">>)),
   cacheEntry(Num(TOOL_CACHE_VERSION), Undef, redactedCatalog(<<toolWeb>>))}
  \cup {cacheEntry(Num(TOOL_CACHE_VERSION), Num(0), redactedCatalog(tools)) :
          tools \in {<<toolWeb>>, <<toolOcr, toolBareOcr>>}}
  \cup {cacheEntry(Num(TOOL_CACHE_VERSION), Num(0), Arr(<<jsonRoundTrip(toolOcr)>>))}

CacheInit ==
  /\ NewClient
  /\ Alone
  /\ env \in CacheEnvs
  /\ cacheFile \in InitialCacheFiles

\* the caller has its answer and is free to call again
Again(t) ==
  /\ call[t].pc = "done"
  /\ call' = [call EXCEPT ![t] = Idle]
  /\ frame' = [frame EXCEPT ![t] = NoFrame]
  /\ toolName' = [toolName EXCEPT ![t] = <<>>]
  /\ UNCHANGED <<client, initPromise, isInitialized, doInit, session, env, now, cacheFile, redact, peers, slept, toolResult, tree>>

CacheNext ==
  \/ \E refresh \in BOOLEAN : StartListTools(Solo, refresh)
  \/ \E op \in ResolveOps, id \in ToolIds : StartGetTool(Solo, op, id)
  \/ \E options \in ToolsOptions : StartTools(Solo, options)
  \/ ReadCacheEnds(Solo)
  \/ ListToolsInitSettles(Solo)
  \/ \E tools \in Catalogs : GetToolsReturns(Solo, tools)
  \/ GetToolsRaises(Solo, "e503")
  \/ \E io \in WriteOutcomes : WriteCacheEnds(Solo, io)
  \/ Again(Solo)
  \/ Tick
  \/ InitSettles(Solo) /\ UNCHANGED others
  \/ InvokeReturns(Solo) /\ UNCHANGED others
  \/ InvokeRaises(Solo, "e400") /\ UNCHANGED others
  \/ \E a \in AttemptIds : CreateReturns(a) /\ UNCHANGED others
  \/ \E a \in AttemptIds : RegisterReturns(a) /\ UNCHANGED others
  \/ \E a \in AttemptIds : RegisterFails(a) /\ UNCHANGED others

CacheSpec == CacheInit /\ [][CacheNext]_<<vars, others>>

(***************************************************************************)
(* The `call` command: resolveToolName(toolName), then, unless it is a dry *)
(* run, callToolRaw(resolved, args), which resolves again.  The catalogs   *)
(* have names that are suffixes of other names.                            *)
(***************************************************************************)
toolNestedOcr == Obj(<<[k |-> "name", c |-> Str(<<"y",".","x",".","o","c","r">>)]>>)

ResolveCatalogs ==
  {<<toolOtherOcr, toolOcr>>, <<toolOcr, toolBareOcr>>, <<toolOtherOcr, toolNestedOcr>>,
   <<toolNestedOcr, toolOtherOcr, toolOcr>>}

ResolveIds == {<<"o","c","r">>, <<"x",".","o","c","r">>, <<"m","i","s","s","i","n","g">>}

ResolveCacheFiles ==
  {NoFile, cacheEntry(Num(TOOL_CACHE_VERSION), Num(0), redactedCatalog(<<toolWeb>>)),
   cacheEntry(Num(TOOL_CACHE_VERSION), Num(0), redactedCatalog(<<toolOtherOcr, toolOcr>>))}

ResolveInit ==
  /\ NewClient
  /\ Alone
  /\ env = cacheEnv(undefined, <<"2">>)
  /\ cacheFile \in ResolveCacheFiles

\* const resolved = await client.resolveToolName(toolName) has returned:
\* client.callToolRaw(resolved, args)
CallResolved(t) ==
  /\ call[t].pc = "done"
  /\ frame[t].op = "resolveToolName"
  /\ call[t].result = Returned
  /\ listTools(t, [Idle EXCEPT !.op = "listTools"],
               [NoFrame EXCEPT !.op = "callToolRaw", !.id = frame[t].name, !.pass = 1,
                               !.resolvedIn = frame[t].tools], FALSE)
  /\ UNCHANGED <<client, isInitialized, session, env, toolName, now, cacheFile, redact, peers, slept, toolResult, tree>>

ResolveNext ==
  \/ \E op \in ResolveOps, id \in ResolveIds : StartGetTool(Solo, op, id)
  \/ CallResolved(Solo)
  \/ ReadCacheEnds(Solo)
  \/ ListToolsInitSettles(Solo)
  \/ \E tools \in ResolveCatalogs : GetToolsReturns(Solo, tools)
  \/ \E io \in WriteOutcomes : WriteCacheEnds(Solo, io)
  \/ Again(Solo)
  \/ Tick
  \/ InitSettles(Solo) /\ UNCHANGED others
  \/ InvokeReturns(Solo) /\ UNCHANGED others
  \/ \E a \in AttemptIds : CreateReturns(a) /\ UNCHANGED others
  \/ \E a \in AttemptIds : RegisterReturns(a) /\ UNCHANGED others

ResolveSpec == ResolveInit /\ [][ResolveNext]_<<vars, others>>

(***************************************************************************)
(* listTools(refresh) alone, over more cache files: one fs.readFile        *)
(* cannot read, entries without a tools member or with a version that is   *)
(* no number; and over a catalog with the API key in a member's name.      *)
(***************************************************************************)
\* fs.readFile raises (EACCES, EISDIR)
Unreadable == [kind |-> "unreadable", data |-> Null]

toolKeyed ==
  Obj(<<[k |-> "name", c |-> Str(<<"z","a","i",".","e","n","v",".","g","e","t">>)],
        [k |-> "inputs", c |-> Obj(<<[k |-> "sk1", c |-> Str(<<"v">>)]>>)]>>)

ListCacheFiles ==
  InitialCacheFiles
  \cup {Unreadable,
        cacheEntry(Num(TOOL_CACHE_VERSION), Num(0), Undef),
        cacheEntry(Num(TOOL_CACHE_VERSION), Num(0), Null),
        cacheEntry(Str(<<"1">>), Num(0), redactedCatalog(<<toolWeb>>)),
        cacheEntry(Undef, Num(0), redactedCatalog(<<toolWeb>>)),
        cacheEntry(Num(TOOL_CACHE_VERSION), Num(1), Arr(<<>>)),
        [kind |-> "json", data |-> Num(0)],
        [kind |-> "json", data |-> Arr(<<toolWeb>>)]}

ListEnvs ==
  {cacheEnv(undefined, ttl) : ttl \in {undefined, <<"2">>, <<"x">>}}
  \cup {cacheEnv(<<"0">>, <<"2">>)}

ListCatalogs == {<<toolOtherOcr, toolOcr>>, <<toolWeb>>, <<toolKeyed>>}

ListInit ==
  /\ NewClient
  /\ Alone
  /\ env \in ListEnvs
  /\ cacheFile \in ListCacheFiles

ListNext ==
  \/ \E refresh \in BOOLEAN : StartListTools(Solo, refresh)
  \/ ReadCacheEnds(Solo)
  \/ ListToolsInitSettles(Solo)
  \/ \E tools \in ListCatalogs : GetToolsReturns(Solo, tools)
  \/ GetToolsRaises(Solo, "e503")
  \/ \E io \in WriteOutcomes : WriteCacheEnds(Solo, io)
  \/ Again(Solo)
  \/ Tick
  \/ \E a \in AttemptIds : CreateReturns(a) /\ UNCHANGED others
  \/ \E a \in AttemptIds : RegisterReturns(a) /\ UNCHANGED others
  \/ \E a \in AttemptIds : RegisterFails(a) /\ UNCHANGED others

ListSpec == ListInit /\ [][ListNext]_<<vars, others>>


(***************************************************************************)
(* The redactor on its own: a caller holds a value in its heap, hands it   *)
(* to redactSecrets or to redactTool, and then does what it likes with     *)
(* the result.                                                             *)
(***************************************************************************)
RedactStrings ==
  {<<>>,
   <<"s","k","1">>,
   <<"k","e","y"," ","s","k","1",".">>,
   <<"s","k","1","s","k","1"," ","s","k","1">>,
   <<"p","l","a","i","n">>,
   <<"B","e","a","r","e","r"," ","t","o","k">>,
   <<"B","e","a","r","e","r"," "," ","t","o","k"," ","x">>,
   <<"B","e","a","r","e","r"," ","s","k","1">>,
   <<"x"," ","B","e","a","r","e","r"," ","t","o","k">>,
   <<"b","e","a","r","e","r"," ","t","o","k">>,
   <<"B","e","a","r","e","r">>}

RedactLeaves == {Str(str) : str \in RedactStrings} \cup {Num(7), Null, Undef}

nested(leaf) ==
  {Arr(<<leaf, Str(sApiKey)>>),
   Obj(<<[k |-> "note", c |-> leaf], [k |-> "token", c |-> leaf]>>),
   Obj(<<[k |-> "Token", c |-> leaf], [k |-> "Authorization", c |-> Arr(<<leaf>>)]>>)}

nestedAgain(value) ==
  {Arr(<<value>>),
   Obj(<<[k |-> "inner", c |-> value], [k |-> "apiKey", c |-> value]>>)}

\* the values handed to the redactor
RedactValues ==
  LET once == UNION {nested(leaf) : leaf \in RedactLeaves} IN
  RedactLeaves \cup once \cup UNION {nestedAgain(value) : value \in once}

\* the credentials of the process
RedactEnvs ==
  {NoEnv,
   [NoEnv EXCEPT !.Z_AI_API_KEY = sApiKey],
   [NoEnv EXCEPT !.ZAI_API_KEY = sApiKey],
   [NoEnv EXCEPT !.Z_AI_API_KEY = <<>>, !.ZAI_API_KEY = sApiKey]}

\* the apiKey argument of redactSecrets
ApiKeys == {undefined, <<>>, sApiKey}

RedactInit ==
  /\ NewClient
  /\ env \in RedactEnvs
  /\ cacheFile = NoFile
  /\ peers = <<>>
  /\ slept = <<>>
  /\ Unasked
  /\ \E value \in RedactValues :
       LET held == store(<<>>, value) IN
       redact = [NoRedaction EXCEPT !.heap = held.heap, !.input = held.at,
                                    !.before = held.heap]

returns(op, r, apiKey) ==
  /\ redact' = [redact EXCEPT !.op = op, !.heap = r.heap, !.output = r.at,
                              !.apiKey = apiKey]
  /\ UNCHANGED <<vars, env, toolName, now, cacheFile, frame, peers, slept, toolResult, tree>>

RedactSecrets(apiKey) ==
  /\ redact.op = "none"
  /\ returns("redactSecrets", redactSecretsAt(redact.heap, redact.input, apiKey), apiKey)

\* a tool is an object
RedactTool ==
  /\ redact.op = "none"
  /\ redact.heap[redact.input].t = "object"
  /\ returns("redactTool", redactToolAt(redact.heap, redact.input),
             orElse(env.Z_AI_API_KEY, env.ZAI_API_KEY))

\* the caller empties an array or an object of the result
Mutate(at) ==
  /\ redact.op # "none"
  /\ at \in containers(redact.heap, redact.output)
  /\ redact.heap[at].items # <<>>
  /\ redact' = [redact EXCEPT !.heap[at].items = <<>>, !.mutated = @ + 1]
  /\ UNCHANGED <<vars, env, toolName, now, cacheFile, frame, peers, slept, toolResult, tree>>

RedactNext ==
  \/ \E apiKey \in ApiKeys : RedactSecrets(apiKey)
  \/ RedactTool
  \/ \E at \in DOMAIN redact.heap : Mutate(at)

RedactSpec == RedactInit /\ [][RedactNext]_<<vars, others>>

(***************************************************************************)
(* The key of the cache: getToolCacheKey and getToolCachePath, for the     *)
(* clients of several processes that run with one cache directory.         *)
(***************************************************************************)
\* the characters of a key of an object
keyChars(k) ==
  CASE k = "mode" -> <<"m","o","d","e">>
    [] k = "baseUrl" -> <<"b","a","s","e","U","r","l">>
    [] k = "endpoints" -> <<"e","n","d","p","o","i","n","t","s">>
    [] k = "enableVision" -> <<"e","n","a","b","l","e","V","i","s","i","o","n">>
    [] k = "search" -> <<"s","e","a","r","c","h">>
    [] k = "reader" -> <<"r","e","a","d","e","r">>
    [] k = "apiKey" -> <<"a","p","i","K","e","y">>
    [] k = "version" -> <<"v","e","r","s","i","o","n">>
    [] k = "timestamp" -> <<"t","i","m","e","s","t","a","m","p">>
    [] k = "tools" -> <<"t","o","o","l","s">>
    [] k = "name" -> <<"n","a","m","e">>
    [] k = "description" -> <<"d","e","s","c","r","i","p","t","i","o","n">>
    [] k = "tool_call_template" -> <<"t","o","o","l","_","c","a","l","l","_","t","e","m","p","l","a","t","e">>
    [] k = "headers" -> <<"h","e","a","d","e","r","s">>
    [] k = "Authorization" -> <<"A","u","t","h","o","r","i","z","a","t","i","o","n">>
    [] k = "auth" -> <<"a","u","t","h">>
    [] k = "outputs" -> <<"o","u","t","p","u","t","s">>
    [] k = "tags" -> <<"t","a","g","s">>
    [] k = "inputs" -> <<"i","n","p","u","t","s">>
    [] k = "sk1" -> <<"s","k","1">>

\* the characters of a string as JSON.stringify quotes them
RECURSIVE escape(_)
escape(str) ==
  IF str = <<>> THEN <<>>
  ELSE (IF Head(str) \in {"\"", "\\"} THEN <<"\\", Head(str)>> ELSE <<Head(str)>>)
         \o escape(Tail(str))

quote(str) == <<"\"">> \o escape(str) \o <<"\"">>

\* the decimal digits of a natural number
RECURSIVE digits(_)
digits(n) ==
  IF n < 10 THEN <<CHOOSE d \in DOMAIN DigitValue : DigitValue[d] = n>>
  ELSE digits(n \div 10) \o digits(n % 10)

\* JSON.stringify(value): a member that is undefined is left out, an
\* element that is undefined is written null
RECURSIVE stringify(_)
RECURSIVE stringifyAll(_, _)
stringify(value) ==
  CASE value.t = "string" -> quote(value.s)
    [] value.t = "number" -> digits(value.n)
    [] value.t = "boolean" -> IF value.n = 1 THEN <<"t","r","u","e">> ELSE <<"f","a","l","s","e">>
    [] value.t = "array" -> <<"[">> \o stringifyAll(value.items, FALSE) \o <<"]">>
    [] value.t = "object" ->
         <<"{">> \o stringifyAll(SelectSeq(value.items, LAMBDA e : e.c.t # "undefined"), TRUE)
                \o <<"}">>
    [] OTHER -> <<"n","u","l","l">>

stringifyAll(items, keyed) ==
  IF items = <<>> THEN <<>>
  ELSE (IF keyed THEN quote(keyChars(Head(items).k)) \o <<":">> \o stringify(Head(items).c)
        ELSE stringify(Head(items)))
         \o (IF Len(items) > 1 THEN <<",">> ELSE <<>>)
         \o stringifyAll(Tail(items), keyed)

\* resolveEnableVision() of client c: options.enableVision ?? envVision
resolveEnableVision(c) ==
  LET envVision == toLowerCase(orElse(c.Z_AI_VISION_MCP, <<>>)) \notin {<<"0">>, sFalse} IN
  IF c.enableVision.t \in {"undefined", "null"} THEN envVision ELSE c.enableVision.n = 1

keyDataWithApiKey(c) ==
  Obj(<<[k |-> "mode", c |-> Str(c.mode)],
        [k |-> "baseUrl", c |-> IF c.baseUrl = undefined THEN Undef ELSE Str(c.baseUrl)],
        [k |-> "endpoints", c |-> c.endpoints],
        [k |-> "enableVision", c |-> Bool(resolveEnableVision(c))],
        [k |-> "apiKey", c |-> Str(c.apiKey)]>>)

\* keyData of getToolCacheKey: config.mode, config.baseUrl, getMcpEndpoints()
keyData(c) ==
  Obj(<<[k |-> "mode", c |-> Str(c.mode)],
        [k |-> "baseUrl", c |-> IF c.baseUrl = undefined THEN Undef ELSE Str(c.baseUrl)],
        [k |-> "endpoints", c |-> c.endpoints],
        [k |-> "enableVision", c |-> Bool(resolveEnableVision(c))]>>)

\* crypto.createHash('sha256').update(data).digest('hex').slice(0, 16): 64
\* bits of SHA-256, taken to have no collision among the data of the model,
\* so that the digest of a text stands for the text
sha256Hex16(data) == <<"#">> \o data

getToolCacheKeyOfMode(c) == sha256Hex16(stringify(Obj(<<[k |-> "mode", c |-> Str(c.mode)]>>)))

getToolCacheKey(c) == sha256Hex16(stringify(keyData(c)))

\* resolveCacheDir(): the processes run with one ZAI_MCP_CACHE_DIR
resolveCacheDir == <<"/","c">>

\* path.join(cacheDir, `tools-${key}.json`)
getToolCachePath(c) ==
  resolveCacheDir \o <<"/","t","o","o","l","s","-">> \o getToolCacheKey(c) \o <<".","j","s","o","n">>

Peers == {"p", "q"}

\* what the configuration of a process can be
Modes == {<<"Z","A","I">>, <<"Z","H","I","P","U">>}
BaseUrls == {undefined, <<"h","t","t","p","s",":","/","/","a">>}
Endpoints ==
  {Obj(<<[k |-> "search", c |-> Str(<<"s">>)]>>),
   Obj(<<[k |-> "search", c |-> Str(<<"s">>)], [k |-> "reader", c |-> Str(<<"r">>)]>>)}

\* a client that has made no call
NewPeer(mode, baseUrl, endpoints, enableVision, envVision, apiKey) ==
  [mode |-> mode, baseUrl |-> baseUrl, endpoints |-> endpoints,
   enableVision |-> enableVision, Z_AI_VISION_MCP |-> envVision, apiKey |-> apiKey,
   key |-> <<>>, wroteAt |-> 0, readAt |-> 0, got |-> "none"]

PeerConfigs(options, apiKeys) ==
  {NewPeer(mode, baseUrl, endpoints, enableVision, envVision, apiKey) :
     mode \in Modes, baseUrl \in BaseUrls, endpoints \in Endpoints,
     enableVision \in options, envVision \in {undefined, <<"0">>},
     apiKey \in apiKeys}

FingerprintInit ==
  /\ NewClient
  /\ env = NoEnv
  /\ cacheFile = NoFile
  /\ redact = NoRedaction
  /\ slept = <<>>
  /\ Unasked
  /\ \E p \in PeerConfigs({Undef}, {sApiKey}),
        q \in PeerConfigs({Undef, Bool(FALSE)}, {sApiKey, <<"s","k","2">>}) :
       peers = [client |-> [x \in Peers |-> IF x = "p" THEN p ELSE q],
                files |-> <<>>, calls |-> 0]

\* writeToolsCache of client x, down to fs.writeFile(this.getToolCachePath(), ...)
PeerWrites(x) ==
  LET c == peers.client[x] IN
  /\ peers # <<>>
  /\ c.wroteAt = 0
  /\ peers' = [peers EXCEPT !.calls = @ + 1,
                            !.files = (getToolCachePath(c) :> x) @@ @,
                            !.client[x].key = getToolCacheKey(c),
                            !.client[x].wroteAt = peers.calls + 1]
  /\ UNCHANGED <<vars, env, toolName, now, cacheFile, frame, redact, slept, toolResult, tree>>

\* readToolsCache of client x, down to fs.readFile(this.getToolCachePath(), 'utf8')
PeerReads(x) ==
  LET c == peers.client[x] IN
  /\ peers # <<>>
  /\ c.readAt = 0
  /\ peers' = [peers EXCEPT !.calls = @ + 1,
                            !.client[x].key = getToolCacheKey(c),
                            !.client[x].readAt = peers.calls + 1,
                            !.client[x].got =
                               IF getToolCachePath(c) \in DOMAIN peers.files
                               THEN peers.files[getToolCachePath(c)]
                               ELSE "miss"]
  /\ UNCHANGED <<vars, env, toolName, now, cacheFile, frame, redact, slept, toolResult, tree>>

FingerprintNext ==
  \/ \E x \in Peers : PeerWrites(x)
  \/ \E x \in Peers : PeerReads(x)
  \/ Tick

FingerprintSpec == FingerprintInit /\ [][FingerprintNext]_<<vars, others>>

(***************************************************************************)
(* Registration on its own: one caller, and everything UtcpClient.create   *)
(* and registerManual can do.                                              *)
(***************************************************************************)
InitNext ==
  \/ \E name \in ToolNames : CallToolNamed(name)
  \/ InitSettles(Solo) /\ UNCHANGED others
  \/ InvokeReturns(Solo) /\ UNCHANGED others
  \/ Again(Solo)
  \/ \E a \in AttemptIds : CreateReturns(a) /\ UNCHANGED others
  \/ \E a \in AttemptIds, e \in TransportErrors : CreateRaises(a, e) /\ UNCHANGED others
  \/ \E a \in AttemptIds : RegisterReturns(a) /\ UNCHANGED others
  \/ \E a \in AttemptIds, e \in RegisterFailures : RegisterFailsWith(a, e) /\ UNCHANGED others
  \/ \E a \in AttemptIds, e \in TransportErrors : RegisterRaises(a, e) /\ UNCHANGED others

InitSpec == Init /\ [][InitNext]_<<vars, others>>

(***************************************************************************)
(* The backoff on its own: one caller with a budget of two retries, a      *)
(* transport that fails with HTTP 503, and the settings of the backoff.    *)
(***************************************************************************)
backoffEnv(base, max, jitterMax) ==
  [NoEnv EXCEPT !.ZAI_MCP_RETRY_COUNT = <<"2">>, !.ZAI_MCP_RETRY_BASE_MS = base,
                !.ZAI_MCP_RETRY_MAX_MS = max, !.ZAI_MCP_RETRY_JITTER_MS = jitterMax]

BackoffEnvs ==
  {backoffEnv(undefined, undefined, undefined),
   backoffEnv(<<"3">>, <<"4">>, <<"2">>),
   backoffEnv(<<"1">>, <<"8">>, <<"0">>),
   backoffEnv(<<"5","0","0">>, <<"8","0","0">>, undefined)}

BackoffInit ==
  /\ NewClient
  /\ Alone
  /\ env \in BackoffEnvs
  /\ cacheFile = NoFile

BackoffNext ==
  \/ \E name \in ToolNames : CallToolNamed(name)
  \/ InitSettles(Solo) /\ UNCHANGED others
  \/ InvokeReturns(Solo) /\ UNCHANGED others
  \/ InvokeRaises(Solo, "e503") /\ UNCHANGED others
  \/ \E random \in Randoms : Sleeps(Solo, random)
  \/ CloseResolves(Solo) /\ UNCHANGED others
  \/ CloseTimesOut(Solo) /\ UNCHANGED others
  \/ CloseRejects(Solo) /\ UNCHANGED others
  \/ \E a \in AttemptIds : CreateReturns(a) /\ UNCHANGED others
  \/ \E a \in AttemptIds : RegisterReturns(a) /\ UNCHANGED others

BackoffSpec == BackoffInit /\ [][BackoffNext]_<<vars, others>>

retryEnv(count) == [NoEnv EXCEPT !.ZAI_MCP_RETRY_COUNT = count]

(***************************************************************************)
(* One callTool with every budget getRetryCount can return, a negative one *)
(* included, and a transport each of whose calls ends: create and          *)
(* registerManual return or raise, the invocation returns or raises, the   *)
(* close resolves, rejects or loses the race with the timer; and the       *)
(* backoff sleep ends.                                                     *)
(***************************************************************************)
TerminationInit ==
  /\ NewClient
  /\ Alone
  /\ env \in {retryEnv(count) : count \in {undefined, <<"-","1">>, <<"0">>, <<"1">>, <<"2">>}}
  /\ cacheFile = NoFile

Creates == \E a \in AttemptIds : CreateReturns(a) \/ \E e \in TransportErrors : CreateRaises(a, e)

Registers ==
  \E a \in AttemptIds :
    \/ RegisterReturns(a)
    \/ RegisterFails(a)
    \/ \E e \in TransportErrors : RegisterRaises(a, e)

Invokes == InvokeReturns(Solo) \/ \E e \in AllInvokeErrors : InvokeRaises(Solo, e)

Closes == CloseResolves(Solo) \/ CloseTimesOut(Solo) \/ CloseRejects(Solo)

TerminationNext ==
  \/ \E name \in ToolNames : CallToolNamed(name)
  \/ InitSettles(Solo) /\ UNCHANGED others
  \/ Invokes /\ UNCHANGED others
  \/ SleepEnds(Solo) /\ UNCHANGED others
  \/ Closes /\ UNCHANGED others
  \/ Creates /\ UNCHANGED others
  \/ Registers /\ UNCHANGED others

\* the event loop runs every continuation that is ready, and every call of
\* the transport and every timer ends
TerminationSpec ==
  /\ TerminationInit
  /\ [][TerminationNext]_<<vars, others>>
  /\ WF_vars(InitSettles(Solo))
  /\ WF_vars(Invokes)
  /\ WF_vars(SleepEnds(Solo))
  /\ WF_vars(Closes)
  /\ WF_vars(Creates)
  /\ WF_vars(Registers)

(***************************************************************************)
(* JSON.parse(text).  A parse gives the value and the text left (ok), or   *)
(* fails (a SyntaxError).  Numbers are the integers: the texts of the      *)
(* model hold no fraction and no exponent.  The names of members are those *)
(* keyChars knows.                                                         *)
(***************************************************************************)
Keys ==
  {"mode", "baseUrl", "endpoints", "enableVision", "search", "reader", "apiKey", "version",
   "timestamp", "tools", "name", "description", "tool_call_template", "headers",
   "Authorization", "auth", "outputs", "tags", "inputs", "sk1"}

WhiteSpace == {" ", "\t", "\n", "\r"}

RECURSIVE skip(_)
skip(text) == IF text # <<>> /\ Head(text) \in WhiteSpace THEN skip(Tail(text)) ELSE text

SyntaxError == [ok |-> FALSE, value |-> Null, rest |-> <<>>]
Parsed(value, rest) == [ok |-> TRUE, value |-> value, rest |-> rest]

startsWith(text, prefix) ==
  Len(text) >= Len(prefix) /\ SubSeq(text, 1, Len(prefix)) = prefix

\* the characters of a string literal, text beginning after its opening quote
RECURSIVE parseString(_, _)
parseString(text, chars) ==
  IF text = <<>> \/ Head(text) \in {"\t", "\n", "\r"} THEN SyntaxError
  ELSE IF Head(text) = "\"" THEN Parsed(Str(chars), Tail(text))
  ELSE IF Head(text) = "\\"
       THEN IF Len(text) < 2 THEN SyntaxError
            ELSE LET c == text[2]
                     rest == SubSeq(text, 3, Len(text))
                 IN CASE c \in {"\"", "\\", "/"} -> parseString(rest, Append(chars, c))
                      [] c = "n" -> parseString(rest, Append(chars, "\n"))
                      [] c = "t" -> parseString(rest, Append(chars, "\t"))
                      [] c = "r" -> parseString(rest, Append(chars, "\r"))
                      [] OTHER -> SyntaxError
  ELSE parseString(Tail(text), Append(chars, Head(text)))

\* -? (0 | [1-9][0-9]*)
parseNumber(text) ==
  LET negative == Head(text) = "-"
      body == IF negative THEN Tail(text) ELSE text
      ds == digitPrefix(body)
  IN IF ds = <<>> \/ (Len(ds) > 1 /\ Head(ds) = "0") THEN SyntaxError
     ELSE Parsed(Num(IF negative THEN 0 - digitsToNumber(ds) ELSE digitsToNumber(ds)),
                 SubSeq(body, Len(ds) + 1, Len(body)))

RECURSIVE parseValue(_)
RECURSIVE parseElements(_, _)
RECURSIVE parseMembers(_, _)
parseValue(text) ==
  LET s == skip(text) IN
  IF s = <<>> THEN SyntaxError
  ELSE CASE Head(s) = "\"" -> parseString(Tail(s), <<>>)
         [] Head(s) = "[" ->
              IF startsWith(skip(Tail(s)), <<"]">>)
              THEN Parsed(Arr(<<>>), Tail(skip(Tail(s))))
              ELSE parseElements(Tail(s), <<>>)
         [] Head(s) = "{" ->
              IF startsWith(skip(Tail(s)), <<"}">>)
              THEN Parsed(Obj(<<>>), Tail(skip(Tail(s))))
              ELSE parseMembers(Tail(s), <<>>)
         [] Head(s) = "-" \/ Head(s) \in DOMAIN DigitValue -> parseNumber(s)
         [] startsWith(s, <<"t","r","u","e">>) -> Parsed(Bool(TRUE), SubSeq(s, 5, Len(s)))
         [] startsWith(s, <<"f","a","l","s","e">>) -> Parsed(Bool(FALSE), SubSeq(s, 6, Len(s)))
         [] startsWith(s, <<"n","u","l","l">>) -> Parsed(Null, SubSeq(s, 5, Len(s)))
         [] OTHER -> SyntaxError

\* value (, value)* ]
parseElements(text, items) ==
  LET v == parseValue(text) IN
  IF ~v.ok THEN SyntaxError
  ELSE LET rest == skip(v.rest) IN
       IF startsWith(rest, <<",">>) THEN parseElements(Tail(rest), Append(items, v.value))
       ELSE IF startsWith(rest, <<"]">>) THEN Parsed(Arr(Append(items, v.value)), Tail(rest))
       ELSE SyntaxError

\* string : value (, string : value)* }
parseMembers(text, items) ==
  LET s == skip(text) IN
  IF ~startsWith(s, <<"\"">>) THEN SyntaxError
  ELSE LET key == parseString(Tail(s), <<>>) IN
       IF ~key.ok \/ ~startsWith(skip(key.rest), <<":">>) THEN SyntaxError
       ELSE LET v == parseValue(Tail(skip(key.rest))) IN
            IF ~v.ok THEN SyntaxError
            ELSE LET rest == skip(v.rest)
                     k == CHOOSE k \in Keys : keyChars(k) = key.value.s
                     more == Append(items, [k |-> k, c |-> v.value])
                 IN IF startsWith(rest, <<",">>) THEN parseMembers(Tail(rest), more)
                    ELSE IF startsWith(rest, <<"}">>) THEN Parsed(Obj(more), Tail(rest))
                    ELSE SyntaxError

JSONparse(text) ==
  LET v == parseValue(text) IN
  IF v.ok /\ skip(v.rest) = <<>> THEN v ELSE SyntaxError

(***************************************************************************)
(* What callTool returns for the result of the transport's callTool.       *)
(***************************************************************************)
returnRaw(result) == result

return(result) ==
  IF result.t = "string"
  THEN IF JSONparse(result.s).ok THEN JSONparse(result.s).value ELSE result
  ELSE result

\* values a tool may answer with, and texts that are no JSON
ResultValues ==
  {Num(0), Num(12), Str(<<>>), Str(<<"a","\"","b","\\">>), Null, Bool(TRUE), Bool(FALSE), Arr(<<>>), Obj(<<>>),
   Arr(<<Num(1), Str(<<"2">>), Null, Arr(<<Bool(FALSE)>>)>>),
   Obj(<<[k |-> "name", c |-> Str(<<"o","c","r">>)],
         [k |-> "tags", c |-> Arr(<<Obj(<<[k |-> "version", c |-> Num(3)]>>), Str(<<"{","}">>)>>)]>>)}

\* texts JSON.parse takes that JSON.stringify does not write
Texts ==
  {[text |-> <<" ","[","1"," ",",","\n","2","]"," ">>, value |-> Arr(<<Num(1), Num(2)>>)],
   [text |-> <<"-","5">>, value |-> Num(0 - 5)],
   [text |-> <<"{"," ","\"","n","a","m","e","\""," ",":","\"","\\","n","\"","}">>,
    value |-> Obj(<<[k |-> "name", c |-> Str(<<"\n">>)]>>)]}

NotJson ==
  {<<>>, <<" ">>, <<"o","k">>, <<"{">>, <<"[","1",",","]">>, <<"{","\"","n","a","m","e","\"","}">>,
   <<"0","1">>, <<"t","r","u">>, <<"\"","a">>, <<"1"," ","2">>, <<"{","n","a","m","e",":","1","}">>,
   <<"n","u","l","l","x">>, <<"E","r","r","o","r",":"," ","4","0","4">>}

RawResults ==
  {Str(stringify(value)) : value \in ResultValues}
  \cup {Str(t.text) : t \in Texts}
  \cup {Str(text) : text \in NotJson}
  \cup {value \in ResultValues : value.t # "string"} \cup {Undef}

\* this.client.callTool(toolName, args) returned result
InvokeReturnsResult(t, result) ==
  /\ InvokeReturns(t)
  /\ toolResult' = [raw |-> result, returned |-> return(result)]
  /\ UNCHANGED <<env, toolName, now, cacheFile, frame, redact, peers, slept, tree>>

ResultInit ==
  /\ NewClient
  /\ Alone
  /\ env = retryEnv(<<"1">>)
  /\ cacheFile = NoFile

ResultNext ==
  \/ \E name \in ToolNames : CallToolNamed(name)
  \/ InitSettles(Solo) /\ UNCHANGED others
  \/ \E result \in RawResults : InvokeReturnsResult(Solo, result)
  \/ InvokeRaises(Solo, "e503") /\ UNCHANGED others
  \/ SleepEnds(Solo) /\ UNCHANGED others
  \/ Closes /\ UNCHANGED others
  \/ \E a \in AttemptIds : CreateReturns(a) /\ UNCHANGED others
  \/ \E a \in AttemptIds : RegisterReturns(a) /\ UNCHANGED others

ResultSpec == ResultInit /\ [][ResultNext]_<<vars, others>>

(***************************************************************************)
(* repo tree --depth n: collectTreeSnapshots(client, repo, basePath,       *)
(* depth) with extractImmediateDirectories.  In the texts of the model     *)
(* "|" stands for the box-drawing vertical bar, "+" for the tee, "^" for   *)
(* the corner and "-" for the horizontal bar.                              *)
(***************************************************************************)
\* text.indexOf(pat, from), 1-based; 0 when there is none
indexOf(str, pat, from) ==
  LET at == {i \in from..(Len(str) - Len(pat) + 1) : SubSeq(str, i, i + Len(pat) - 1) = pat}
  IN IF at = {} THEN 0 ELSE CHOOSE i \in at : \A j \in at : i <= j

\* str.split(sep), sep one character
RECURSIVE split(_, _)
split(str, sep) ==
  LET i == indexOf(str, <<sep>>, 1) IN
  IF i = 0 THEN <<str>>
  ELSE <<SubSeq(str, 1, i - 1)>> \o split(SubSeq(str, i + 1, Len(str)), sep)

\* str.trim()
RECURSIVE trimEnd(_)
trimEnd(str) ==
  IF str # <<>> /\ str[Len(str)] \in WhiteSpace THEN trimEnd(SubSeq(str, 1, Len(str) - 1))
  ELSE str

trim(str) == trimEnd(skip(str))

sOpening == <<"<","s","t","r","u","c","t","u","r","e",">","\n">>
sClosing == <<"\n","<","/","s","t","r","u","c","t","u","r","e",">">>

\* structure.match(/<structure>\n([\s\S]*?)\n<\/structure>/), the block split
\* into lines, "\r" taken out, the empty lines dropped
extractStructureBlock(structure) ==
  LET i == indexOf(structure, sOpening, 1)
      j == IF i = 0 THEN 0 ELSE indexOf(structure, sClosing, i + Len(sOpening))
      block == IF j = 0 THEN structure ELSE SubSeq(structure, i + Len(sOpening), j - 1)
      lines == split(block, "\n")
  IN SelectSeq([n \in 1..Len(lines) |-> SelectSeq(lines[n], LAMBDA c : c # "\r")],
               LAMBDA line : line # <<>>)

\* path.posix.normalize(p)
RECURSIVE resolveDots(_, _, _)
resolveDots(segments, done, absolute) ==
  IF segments = <<>> THEN done
  ELSE LET seg == Head(segments) IN
       IF seg = <<>> \/ seg = <<".">> THEN resolveDots(Tail(segments), done, absolute)
       ELSE IF seg = <<".", ".">>
       THEN IF done # <<>> /\ done[Len(done)] # <<".", ".">>
            THEN resolveDots(Tail(segments), SubSeq(done, 1, Len(done) - 1), absolute)
            ELSE IF absolute THEN resolveDots(Tail(segments), done, absolute)
            ELSE resolveDots(Tail(segments), Append(done, seg), absolute)
       ELSE resolveDots(Tail(segments), Append(done, seg), absolute)

RECURSIVE joinWith(_, _)
joinWith(segments, sep) ==
  IF segments = <<>> THEN <<>>
  ELSE IF Len(segments) = 1 THEN Head(segments)
  ELSE Head(segments) \o <<sep>> \o joinWith(Tail(segments), sep)

normalize(p) ==
  IF p = <<>> THEN <<".">>
  ELSE LET absolute == Head(p) = "/"
           trailing == p[Len(p)] = "/"
           body == joinWith(resolveDots(split(p, "/"), <<>>, absolute), "/")
       IN IF body = <<>> THEN (IF absolute THEN <<"/">> ELSE IF trailing THEN <<".", "/">> ELSE <<".">>)
          ELSE (IF absolute THEN <<"/">> ELSE <<>>) \o body \o (IF trailing THEN <<"/">> ELSE <<>>)

\* path.posix.join(a, b)
join(a, b) ==
  IF a = <<>> /\ b = <<>> THEN <<".">>
  ELSE IF a = <<>> THEN normalize(b)
  ELSE IF b = <<>> THEN normalize(a)
  ELSE normalize(a \o <<"/">> \o b)

\* line.match(/^([| ]*)(+--|^--)\s(.+)$/): the prefix and the name, or no match
lineMatch(line) ==
  LET prefix == CHOOSE n \in 0..Len(line) :
                  /\ \A i \in 1..n : line[i] \in WhiteSpace \cup {"|"}
                  /\ n < Len(line) => line[n + 1] \notin WhiteSpace \cup {"|"}
      rest == SubSeq(line, prefix + 1, Len(line))
  IN IF /\ Len(rest) >= 5
        /\ SubSeq(rest, 1, 3) \in {<<"+","-","-">>, <<"^","-","-">>}
        /\ rest[4] \in WhiteSpace
     THEN [ok |-> TRUE, prefix |-> prefix, name |-> trim(SubSeq(rest, 5, Len(rest)))]
     ELSE [ok |-> FALSE, prefix |-> 0, name |-> <<>>]

\* the directories of one line: none or one
directoryOf(line, basePath) ==
  LET m == lineMatch(line) IN
  IF ~m.ok \/ m.prefix \div 4 # 0 \/ m.name = <<>> \/ m.name[Len(m.name)] # "/" THEN <<>>
  ELSE LET dirName == SubSeq(m.name, 1, Len(m.name) - 1) IN
       <<IF basePath # <<>> THEN join(basePath, dirName) ELSE dirName>>

RECURSIVE directoriesOf(_, _)
directoriesOf(lines, basePath) ==
  IF lines = <<>> THEN <<>>
  ELSE directoryOf(Head(lines), basePath) \o directoriesOf(Tail(lines), basePath)

extractImmediateDirectories(structure, basePath) ==
  directoriesOf(extractStructureBlock(structure), basePath)

\* the repositories of the model: what getRepoStructure returns for a path;
\* for a path a repository has not, an empty listing
repoPlain ==
  [path \in {<<>>, <<"s","r","c">>, <<"s","r","c","/","l","i","b">>, <<"s","r","c","/","l","i","b","/","d","e","e","p">>, <<"d","o","c","s">>} |->
     CASE path = <<>> ->
            <<"R","e","p","o","s","i","t","o","r","y"," ","t","r","e","e",":","\n","<","s","t","r","u","c","t","u","r","e",">","\n","+","-","-"," ","s","r","c","/","\n","|"," "," "," ","+","-","-"," ","l","i","b","/","\n","+","-","-"," ","d","o","c","s","/","\n","^","-","-"," ","R","E","A","D","M","E",".","m","d","\n","<","/","s","t","r","u","c","t","u","r","e",">","\n">>
       [] path = <<"s","r","c">> ->
            <<"R","e","p","o","s","i","t","o","r","y"," ","t","r","e","e",":","\n","<","s","t","r","u","c","t","u","r","e",">","\n","+","-","-"," ","l","i","b","/","\n","^","-","-"," ","a",".","t","s","\n","<","/","s","t","r","u","c","t","u","r","e",">","\n">>
       [] path = <<"s","r","c","/","l","i","b">> ->
            <<"R","e","p","o","s","i","t","o","r","y"," ","t","r","e","e",":","\n","<","s","t","r","u","c","t","u","r","e",">","\n","^","-","-"," ","d","e","e","p","/","\n","<","/","s","t","r","u","c","t","u","r","e",">","\n">>
       [] path = <<"s","r","c","/","l","i","b","/","d","e","e","p">> ->
            <<"R","e","p","o","s","i","t","o","r","y"," ","t","r","e","e",":","\n","<","s","t","r","u","c","t","u","r","e",">","\n","^","-","-"," ","x",".","t","s","\n","<","/","s","t","r","u","c","t","u","r","e",">","\n">>
       [] path = <<"d","o","c","s">> ->
            <<"R","e","p","o","s","i","t","o","r","y"," ","t","r","e","e",":","\n","<","s","t","r","u","c","t","u","r","e",">","\n","^","-","-"," ","s","r","c","/","\n","<","/","s","t","r","u","c","t","u","r","e",">","\n">>]

repoRepeats ==
  [path \in {<<>>, <<"a">>, <<".">>, <<"b">>} |->
     CASE path = <<>> ->
            <<"R","e","p","o","s","i","t","o","r","y"," ","t","r","e","e",":","\n","<","s","t","r","u","c","t","u","r","e",">","\n","+","-","-"," ","a","/","\n","+","-","-"," ","a","/","\n","^","-","-"," ","b","/","\n","<","/","s","t","r","u","c","t","u","r","e",">","\n">>
       [] path = <<"a">> ->
            <<"R","e","p","o","s","i","t","o","r","y"," ","t","r","e","e",":","\n","<","s","t","r","u","c","t","u","r","e",">","\n","+","-","-"," ",".",".","/","\n","^","-","-"," ",".","/","\n","<","/","s","t","r","u","c","t","u","r","e",">","\n">>
       [] path = <<".">> ->
            <<"R","e","p","o","s","i","t","o","r","y"," ","t","r","e","e",":","\n","<","s","t","r","u","c","t","u","r","e",">","\n","+","-","-"," ","a","/","\n","^","-","-"," ","b","/","\n","^","-","-"," ","/","\n","<","/","s","t","r","u","c","t","u","r","e",">","\n">>
       [] path = <<"b">> ->
            <<"R","e","p","o","s","i","t","o","r","y"," ","t","r","e","e",":","\n","<","s","t","r","u","c","t","u","r","e",">","\n","^","-","-"," ",".",".","/","a","/","\n","^","-","-"," "," ","c","/"," ","\n","<","/","s","t","r","u","c","t","u","r","e",">","\n">>]

repoBare ==
  [path \in {<<>>, <<"s","r","c">>, <<"d","o","c","s">>} |->
     CASE path = <<>> ->
            <<"+","-","-"," ","s","r","c","/","\r","\n","\r","\n","^","-","-"," ","d","o","c","s","/","\r","\n","+","-","-","s","r","c","/","\r","\n","-","-"," ","x","/">>
       [] path = <<"s","r","c">> ->
            <<"^","-","-"," ","d","o","c","s","/">>
       [] path = <<"d","o","c","s">> ->
            <<>>]

Repos == {"plain", "repeats", "bare"}

listings == [repo \in Repos |-> CASE repo = "plain" -> repoPlain
                                  [] repo = "repeats" -> repoRepeats
                                  [] repo = "bare" -> repoBare]

getRepoStructure(repo, path) ==
  IF path \in DOMAIN listings[repo] THEN listings[repo][path] ELSE <<>>

\* extractImmediateDirectories of every listing, worked out once
listed ==
  [repo \in Repos |->
    [path \in DOMAIN listings[repo] |->
      extractImmediateDirectories(listings[repo][path], path)]]

\* the paths and depths repoTree calls collectTreeSnapshots with: dirPath is
\* normalizeDirPath(options.path), depth is at least 2
BasePaths == {undefined, <<"s","r","c">>, <<"a">>}
Depths == {2, 3, 4}

\* the head of the loop: queue.shift() until an item that is not in seen
RECURSIVE shiftAnyway(_, _)
shiftAnyway(queue, seen) ==
  IF queue = <<>> THEN [found |-> FALSE, current |-> [path |-> <<>>, level |-> 0], queue |-> <<>>]
  ELSE [found |-> TRUE, current |-> Head(queue), queue |-> Tail(queue)]

RECURSIVE shift(_, _)
shift(queue, seen) ==
  IF queue = <<>> THEN [found |-> FALSE, current |-> [path |-> <<>>, level |-> 0], queue |-> <<>>]
  ELSE IF Head(queue).path \in seen THEN shift(Tail(queue), seen)
  ELSE [found |-> TRUE, current |-> Head(queue), queue |-> Tail(queue)]

\* round the loop from its while (queue.length > 0) to the await of
\* getRepoStructure, or to its return of the snapshots
loop(t, queue) ==
  LET next == shift(queue, t.seen) IN
  IF next.found
  THEN [t EXCEPT !.pc = "fetching", !.queue = next.queue, !.current = next.current,
                 !.seen = @ \cup {next.current.path},
                 !.fetched = Append(@, next.current)]
  ELSE [t EXCEPT !.pc = "done", !.queue = <<>>]

collectTreeSnapshots(repo, basePath, depth) ==
  /\ tree.pc = "none"
  /\ tree' = loop([NoTree EXCEPT !.repo = repo, !.basePath = basePath, !.depth = depth],
                  <<[path |-> orElse(basePath, <<>>), level |-> 1]>>)
  /\ UNCHANGED <<vars, env, toolName, now, cacheFile, frame, redact, peers, slept, toolResult>>

\* getRepoStructure returned: the rest of the loop's body, and round again
StructureReturns ==
  /\ tree.pc = "fetching"
  /\ LET current == tree.current
         structure == getRepoStructure(tree.repo, current.path)
         snapshots == Append(tree.snapshots,
                             [path |-> orElse(current.path, <<"/">>), structure |-> structure])
         children == IF current.path \in DOMAIN listed[tree.repo]
                     THEN listed[tree.repo][current.path]
                     ELSE extractImmediateDirectories(structure, current.path)
         queue == IF current.level >= tree.depth THEN tree.queue
                  ELSE tree.queue \o [i \in 1..Len(children) |->
                                        [path |-> children[i], level |-> current.level + 1]]
     IN tree' = loop([tree EXCEPT !.snapshots = snapshots], queue)
  /\ UNCHANGED <<vars, env, toolName, now, cacheFile, frame, redact, peers, slept, toolResult>>

\* getRepoStructure raised: collectTreeSnapshots has no catch
StructureRaises ==
  /\ tree.pc = "fetching"
  /\ tree' = [tree EXCEPT !.pc = "raised"]
  /\ UNCHANGED <<vars, env, toolName, now, cacheFile, frame, redact, peers, slept, toolResult>>

TreeInit ==
  /\ NewClient
  /\ Alone
  /\ env = NoEnv
  /\ cacheFile = NoFile

Structures == StructureReturns \/ StructureRaises

TreeNext ==
  \/ \E repo \in Repos, basePath \in BasePaths, depth \in Depths :
       collectTreeSnapshots(repo, basePath, depth)
  \/ Structures

\* every call of getRepoStructure ends
TreeSpec == TreeInit /\ [][TreeNext]_<<vars, others>> /\ WF_<<vars, others>>(Structures)

(***************************************************************************)
(* The session state of the spec, read off the three fields.  The code has *)
(* no separate Closed: close() leaves the fields as the constructor does.  *)
(***************************************************************************)
SessionState ==
  IF isInitialized THEN "Ready"
  ELSE IF initPromise # 0 THEN "Initializing"
  ELSE "Uninitialized"

TypeOK ==
  /\ client \in 0..MaxAttempts
  /\ initPromise \in 0..MaxAttempts
  /\ isInitialized \in BOOLEAN
  /\ doInit \in [AttemptIds -> {"unused", "creating", "registering", "settled"}]
  /\ session \in [AttemptIds -> {"none", "live", "closed"}]
  /\ \A t \in Tasks :
       /\ call[t].pc \in {"idle", "init", "invoke", "closing", "sleep", "done"}
       /\ call[t].maxRetries \in Budgets
       \* a caller only ever waits for an attempt that has not settled
       /\ call[t].awaited # 0 => doInit[call[t].awaited] \in {"creating", "registering"}

(***************************************************************************)
(* C1. Single-flight registration: while a registration attempt is in      *)
(* flight every caller of init() shares it, so at no moment are two        *)
(* attempts of one client instance in flight, under every interleaving     *)
(* with callTool retries and close().                                      *)
(***************************************************************************)
C1_SingleFlight == Cardinality(InFlight) <= 1

(***************************************************************************)
(* C2. Retry bound: a callTool whose init() calls succeeded and whose      *)
(* invoke attempts all failed with a retriable error has made exactly      *)
(* maxRetries + 1 invoke attempts when it raises.  (An attempt is retried  *)
(* only if its error is retriable, so the last error being retriable says  *)
(* that all were.)                                                         *)
(***************************************************************************)
C2_RetryBound ==
  \A t \in Tasks :
    (/\ call[t].pc = "done"
     /\ call[t].result.from = "invoke"
     /\ Retriable[call[t].result.cause])
    => call[t].invokes = call[t].maxRetries + 1

C2_Witness ==
  \E t \in Tasks :
    /\ call[t].pc = "done"
    /\ call[t].result.from = "invoke"
    /\ Retriable[call[t].result.cause]
    /\ call[t].maxRetries = 2
    /\ call[t].invokes = 3

(***************************************************************************)
(* C3. Non-retriable short-circuit: an invoke attempt that fails with an   *)
(* AuthError, a ValidationError or a 401/403-shaped message is never       *)
(* followed by another attempt of the same call: callTool raises a typed   *)
(* error at once (AuthError for the 401/403 shape), after exactly one      *)
(* attempt when it was the first, whatever the budget and whatever         *)
(* retriable marker the message also holds.                                *)
(***************************************************************************)
AuthOrValidation ==
  {e \in InvokeErrors :
     \/ Errors[e].cls \in {"AuthError", "ValidationError"}
     \/ Includes(Errors[e].msg, s401)
     \/ Includes(Errors[e].msg, s403)}

HasRetriableMarker(e) == \E m \in RetriableMarkers : Includes(toLowerCase(Errors[e].msg), m)

C3_NonRetriableShortCircuit ==
  \A t \in Tasks :
    /\ (call[t].pc \in {"closing", "sleep", "init", "invoke"} /\ call[t].lastErr # "none")
       => call[t].lastErr \notin AuthOrValidation
    /\ (call[t].pc = "done" /\ call[t].result.from = "invoke"
        /\ call[t].result.cause \in AuthOrValidation)
       => /\ call[t].invokes = call[t].attempt
          /\ call[t].result.kind = "error"
          /\ call[t].result.cls \in {"AuthError", "TimeoutError", "NetworkError", "ApiError"}
          /\ (Includes(Errors[call[t].result.cause].msg, s401)
              \/ Includes(Errors[call[t].result.cause].msg, s403))
             => call[t].result.cls = "AuthError"

C3_Witness ==
  \E t \in Tasks :
    /\ call[t].pc = "done"
    /\ call[t].result.from = "invoke"
    /\ call[t].result.cause \in AuthOrValidation
    /\ HasRetriableMarker(call[t].result.cause)
    /\ call[t].maxRetries = 2
    /\ call[t].invokes = 1

(***************************************************************************)
(* C4. close() always leaves the client Closed/Uninitialized: when a       *)
(* close() that called the transport's close ends (the close resolved,     *)
(* raised or timed out), client is null, isInitialized is false and        *)
(* initPromise is null.                                                    *)
(***************************************************************************)
C4_CloseLeavesClosed ==
  [][\A t \in Tasks :
       (call[t].pc = "closing" /\ call'[t].pc # "closing")
       => (client' = 0 /\ ~isInitialized' /\ initPromise' = 0)]_vars


closeEnds(t) == call[t].pc = "closing" /\ call'[t].pc # "closing"

\* attempt a raises in this step: a caller awaiting it is handed an error
doInitFails(a) ==
  /\ doInit[a] \in {"creating", "registering"}
  /\ doInit'[a] = "settled"
  /\ \E t \in Tasks : call[t].awaited = a /\ call'[t].initError # "none"

C6_ValidTransitions ==
  [][\/ SessionState' = SessionState
     \/ SessionState = "Uninitialized" /\ SessionState' = "Initializing"
     \/ SessionState = "Initializing" /\ SessionState' = "Ready"
     \/ SessionState = "Ready" /\ SessionState' = "Uninitialized"
     \/ /\ SessionState = "Initializing" /\ SessionState' = "Uninitialized"
        /\ \/ \E a \in AttemptIds : doInitFails(a)
           \/ \E t \in Tasks : closeEnds(t)]_vars

(***************************************************************************)
(* C7. A client instance owns at most one live transport session: no       *)
(* session is created while an earlier one it created is not closed.       *)
(***************************************************************************)
C7_OneLiveSession == Cardinality(Live) <= 1

(***************************************************************************)
(* C8. When a registration attempt fails, the client is Uninitialized      *)
(* with initPromise cleared (so the next init() starts a fresh attempt)    *)
(* and every caller sharing the attempt is handed the failure.             *)
(***************************************************************************)
C8_FailedInitResets ==
  [][\A a \in AttemptIds :
       doInitFails(a)
       => /\ SessionState' = "Uninitialized"
          /\ \A t \in Tasks : call[t].awaited = a => call'[t].initError # "none"]_vars

(***************************************************************************)
(* C9. A retriable failure stays invisible until the budget is exhausted:  *)
(* when callTool raises an error whose cause is retriable, the failed      *)
(* attempts it has made (a failed init() between attempts counted as one)  *)
(* exceed maxRetries.                                                      *)
(***************************************************************************)
FailedAttempts(t) ==
  call[t].attempt + (IF call[t].result.from = "init" THEN 1 ELSE 0)

C9_RetriableInvisible ==
  \A t \in Tasks :
    (/\ call[t].pc = "done"
     /\ call[t].op = "callTool"
     /\ call[t].result.kind = "error"
     /\ call[t].result.cause # "none"
     /\ Retriable[call[t].result.cause])
    => FailedAttempts(t) > call[t].maxRetries

(***************************************************************************)
(* C10. A retried attempt runs on a fresh session: when callTool invokes   *)
(* again after a failure, the transport session it uses is not the one     *)
(* the failed attempt used.                                                *)
(***************************************************************************)
C10_FreshSessionPerAttempt ==
  [][\A t \in Tasks :
       (call[t].pc = "init" /\ call'[t].pc = "invoke" /\ call[t].attempt > 0)
       => call'[t].usedSess # call[t].usedSess]_vars

(***************************************************************************)
(* C11. A failed invocation is retried if and only if its message matches  *)
(* one of the retriable categories (timeout, connection refused,           *)
(* connection reset, network/fetch, rate limit/429, HTTP 500/502/503/504,  *)
(* the "unexpected system error" marker), it is not an authentication or   *)
(* validation failure (C3) and budget remains; a failure matching no       *)
(* category (HTTP 400) is surfaced by the attempt that met it, after       *)
(* exactly one attempt when it is the call's first failure, whatever the   *)
(* budget.                                                                 *)
(***************************************************************************)
\* the categories as the specification lists them
RetriableCategories ==
  [timeout    |-> {sTimeout, sTimedOut, sEtimedoutLc},
   refused    |-> {sEconnrefusedLc},
   reset      |-> {sEconnresetLc},
   network    |-> {sNetwork, sFetch},
   rateLimit  |-> {sRateLimit, s429},
   http5xx    |-> {sHttp500, sHttp502, sHttp503, sHttp504},
   unexpected |-> {sUnexpectedLc, sMinus500}]

MatchesCategory ==
  [e \in DOMAIN Errors |->
     \E k \in DOMAIN RetriableCategories :
       \E m \in RetriableCategories[k] : Includes(toLowerCase(Errors[e].msg), m)]

\* an authentication or validation failure, by class or by message
AuthShaped ==
  [e \in DOMAIN Errors |->
     \/ Errors[e].cls \in {"AuthError", "ValidationError"}
     \/ \E m \in {s401, s403, sAuth} : Includes(toLowerCase(Errors[e].msg), m)]

\* the invocation of task t fails in this step
invokeFails(t) == call[t].pc = "invoke" /\ call'[t].attempt = call[t].attempt + 1

\* the error it failed with, and whether callTool goes round the loop again
failure(t) == IF call'[t].pc = "done" THEN call'[t].result.cause ELSE call'[t].lastErr
retried(t) == call'[t].pc \in {"closing", "sleep"}

C11_RetriedIffRetriableCategory ==
  [][\A t \in Tasks :
       invokeFails(t)
       => /\ retried(t) <=> /\ MatchesCategory[failure(t)]
                            /\ ~AuthShaped[failure(t)]
                            /\ call'[t].attempt <= call[t].maxRetries
          /\ ~MatchesCategory[failure(t)]
             => /\ call'[t].pc = "done"
                /\ call'[t].result.kind = "error"
                /\ call[t].attempt = 0 => call'[t].invokes = 1]_vars

\* with budget 2: a connection reset was retried, then an HTTP 400 surfaced
C11_Witness ==
  /\ call[Solo].pc = "done"
  /\ call[Solo].maxRetries = 2
  /\ call[Solo].result.cause = "e400"
  /\ call[Solo].attempt = 2
  /\ call[Solo].invokes = 2

(***************************************************************************)
(* C12. Retry budget resolution.  For a tool whose name contains           *)
(* ".vision." an override (ZAI_MCP_VISION_RETRY_COUNT, else                *)
(* Z_AI_RETRY_COUNT) that is a number is the budget, whatever the global   *)
(* default says; an override of 0 means exactly one attempt; with neither  *)
(* override variable set the budget is 2.  For every other tool the budget *)
(* is ZAI_MCP_RETRY_COUNT, and 0 when that is unset or not a number.       *)
(***************************************************************************)
isVisionTool(name) == Includes(name, sDotVisionDot)

\* the override in force: the first of the two variables that is set to
\* something
visionOverride ==
  IF env.ZAI_MCP_VISION_RETRY_COUNT \notin {undefined, <<>>}
  THEN env.ZAI_MCP_VISION_RETRY_COUNT
  ELSE env.Z_AI_RETRY_COUNT

noVisionOverride ==
  env.ZAI_MCP_VISION_RETRY_COUNT = undefined /\ env.Z_AI_RETRY_COUNT = undefined

globalDefault ==
  IF env.ZAI_MCP_RETRY_COUNT = undefined \/ parseInt(env.ZAI_MCP_RETRY_COUNT).nan
  THEN 0
  ELSE parseInt(env.ZAI_MCP_RETRY_COUNT).n

C13_GlobalCountForAllTools ==
  \A t \in Tasks :
    (/\ call[t].op = "callTool"
     /\ env.ZAI_MCP_RETRY_COUNT # undefined
     /\ ~parseInt(env.ZAI_MCP_RETRY_COUNT).nan
     /\ noVisionOverride)
    => call[t].maxRetries = parseInt(env.ZAI_MCP_RETRY_COUNT).n

(***************************************************************************)
(* C14. When caching is disabled, refresh is true or the TTL is zero or    *)
(* negative, readToolsCache returns null without reading the cache file,   *)
(* and what listTools then returns is discovered live.                     *)
(***************************************************************************)
C14_BypassReadsNoFile ==
  \A t \in Tasks :
    (/\ frame[t].op # "none"
     /\ \/ ~TOOL_CACHE_ENABLED
        \/ frame[t].refresh
        \/ ~DEFAULT_TOOL_CACHE_TTL_MS.nan /\ DEFAULT_TOOL_CACHE_TTL_MS.n <= 0)
    => /\ frame[t].reads = 0
       /\ call[t].pc # "reading"
       /\ frame[t].got # "cache"
       /\ (frame[t].op = "listTools" /\ call[t].pc = "done" /\ call[t].result = Returned)
          => (frame[t].got = "live" /\ frame[t].discoveries = 1)

\* listTools(true) has returned a live catalog although the cache is on and
\* the file holds an entry a read would return
C14_Witness ==
  /\ frame[Solo].op = "listTools"
  /\ frame[Solo].refresh
  /\ TOOL_CACHE_ENABLED
  /\ readCacheFile.hit
  /\ call[Solo].pc = "done"
  /\ frame[Solo].got = "live"
  /\ frame[Solo].reads = 0

(***************************************************************************)
(* C15. TTL enforcement: a read of a valid entry captured at T, under a    *)
(* TTL D > 0, at time t returns the entry's tools when t - T <= D - 1 and  *)
(* treats the entry as absent (listTools goes on to discover) when         *)
(* t - T >= D + 1.                                                         *)
(***************************************************************************)
validEntry ==
  /\ cacheFile.kind = "json"
  /\ get(cacheFile.data, "version") = Num(TOOL_CACHE_VERSION)
  /\ get(cacheFile.data, "timestamp").t = "number"
  /\ get(cacheFile.data, "tools").t = "array"

\* the read of task t ends in this step
readEnds(t) == call[t].pc = "reading" /\ call'[t].pc # "reading"

\* ... with null: listTools awaits init() to discover
readMisses(t) ==
  /\ call'[t].pc = "init"
  /\ frame'[t].got = "none"
  /\ frame'[t].pass = frame[t].pass

\* ... with the tools of the entry
readHits(t) ==
  /\ ~readMisses(t)
  /\ frame[t].op = "listTools"
     => /\ call'[t].pc = "done"
        /\ call'[t].result = Returned
        /\ frame'[t].got = "cache"
        /\ frame'[t].tools = get(cacheFile.data, "tools").items

C15_TtlEnforcement ==
  [][\A t \in Tasks :
       (/\ readEnds(t)
        /\ validEntry
        /\ ~DEFAULT_TOOL_CACHE_TTL_MS.nan
        /\ DEFAULT_TOOL_CACHE_TTL_MS.n > 0)
       => LET age == now - get(cacheFile.data, "timestamp").n
              D == DEFAULT_TOOL_CACHE_TTL_MS.n
          IN /\ age <= D - 1 => readHits(t)
             /\ age >= D + 1 => readMisses(t)]_<<vars, others>>

\* an entry written at 1 under TTL 2 was returned by a read at 2
C15_Witness ==
  /\ frame[Solo].op = "listTools"
  /\ call[Solo].pc = "done"
  /\ frame[Solo].got = "cache"
  /\ ~DEFAULT_TOOL_CACHE_TTL_MS.nan
  /\ DEFAULT_TOOL_CACHE_TTL_MS.n = 2
  /\ validEntry
  /\ get(cacheFile.data, "timestamp").n = 1
  /\ now = 2

(***************************************************************************)
(* C16. The cache write is best-effort: when mkdir or writeFile fails,     *)
(* listTools still returns the catalog it has just discovered, raises      *)
(* nothing, and the session is left Ready; no caller of getTool sees the   *)
(* failure either.                                                         *)
(***************************************************************************)
C16_WriteBestEffort ==
  [][\A t \in Tasks :
       (call[t].pc = "writing" /\ call'[t].pc # "writing")
       => /\ ~(call'[t].pc = "done" /\ call'[t].result.from = "write")
          /\ (frame[t].op = "listTools" /\ frame'[t].wrote = "failed")
             => /\ call'[t].pc = "done"
                /\ call'[t].result = Returned
                /\ frame'[t].tools = frame[t].tools
                /\ frame'[t].got = "live"
                /\ SessionState' = "Ready"
                /\ client' # 0]_<<vars, others>>

C16_Witness ==
  /\ frame[Solo].op = "listTools"
  /\ frame[Solo].wrote = "failed"
  /\ call[Solo].pc = "done"
  /\ call[Solo].result = Returned
  /\ frame[Solo].tools = <<toolOtherOcr, toolOcr>>
  /\ cacheFile = Garbage
  /\ SessionState = "Ready"

(***************************************************************************)
(* C17. Whenever an entry is written to the cache file, its tools are the  *)
(* redactTool images of the discovered descriptors, one for one and in the *)
(* order of the catalog.                                                   *)
(***************************************************************************)
C17_CacheHoldsRedacted ==
  [][(cacheFile' # cacheFile /\ cacheFile'.kind = "json")
     => \E t \in Tasks :
          /\ call[t].pc = "writing"
          /\ get(cacheFile'.data, "tools").t = "array"
          /\ Len(get(cacheFile'.data, "tools").items) = Len(frame[t].tools)
          /\ \A i \in 1..Len(frame[t].tools) :
               get(cacheFile'.data, "tools").items[i] = redactTool(frame[t].tools[i])]_<<vars, others>>

\* an entry written at 2 holds the catalog <<x.ocr, zai.vision.ocr>>, and
\* not as it was discovered: the key and the bearer tokens are gone
C17_Witness ==
  /\ cacheFile.kind = "json"
  /\ get(cacheFile.data, "timestamp") = Num(2)
  /\ get(cacheFile.data, "tools") = redactedCatalog(<<toolOtherOcr, toolOcr>>)
  /\ get(cacheFile.data, "tools") # Arr(<<toolOtherOcr, jsonRoundTrip(toolOcr)>>)
  /\ get(get(cacheFile.data, "tools").items[2], "description")
       = Str(<<"k","e","y"," ","[","R","E","D","A","C","T","E","D","]",".">>)

(***************************************************************************)
(* C18. The catalog from which resolveToolName / callToolRaw take the name *)
(* that is invoked is the live catalog, discovered in this call, never one *)
(* read back from the cache file.                                          *)
(***************************************************************************)
C18_ResolvesFromLiveCatalog ==
  \A t \in Tasks :
    (frame[t].op \in {"resolveToolName", "callToolRaw"} /\ frame[t].name # undefined)
    => frame[t].source = "live"

(***************************************************************************)
(* C19. Resolution order: when the current catalog has an entry whose name *)
(* is id, getTool returns an entry of that name, even when an earlier      *)
(* entry matches id as a suffix; when it has none but has an entry whose   *)
(* name ends with "." + id, it returns such an entry; in both cases        *)
(* without a forced refresh.                                               *)
(***************************************************************************)
hasExact(tools, id) == \E i \in 1..Len(tools) : get(tools[i], "name").s = id
hasSuffix(tools, id) ==
  \E i \in 1..Len(tools) : endsWith(get(tools[i], "name").s, <<".">> \o id)

\* name is what the resolution order picks from tools for id
rightlyResolved(name, tools, id) ==
  /\ \E i \in 1..Len(tools) : get(tools[i], "name").s = name
  /\ hasExact(tools, id) => name = id
  /\ ~hasExact(tools, id) => endsWith(name, <<".">> \o id)

C19_ResolutionOrder ==
  \A t \in Tasks :
    frame[t].op \in ResolveOps
    => /\ (frame[t].pass = 1 /\ frame[t].name # undefined)
          => /\ rightlyResolved(frame[t].name, frame[t].tools, frame[t].id)
             /\ frame[t].forced = 0
             /\ ~frame[t].refresh
       \* a forced refresh is under way: the catalog of the first pass had
       \* no match
       /\ (frame[t].forced > 0 /\ frame[t].got = "none")
          => (~hasExact(frame[t].tools, frame[t].id) /\ ~hasSuffix(frame[t].tools, frame[t].id))

\* "ocr" resolved to the second entry, "ocr", of a catalog whose first
\* entry is "zai.vision.ocr"
C19_Witness ==
  /\ frame[Solo].op = "resolveToolName"
  /\ frame[Solo].id = <<"o","c","r">>
  /\ frame[Solo].name = <<"o","c","r">>
  /\ Len(frame[Solo].tools) = 2
  /\ endsWith(nameOf(frame[Solo].tools[1]), <<".","o","c","r">>)
  /\ frame[Solo].forced = 0

(***************************************************************************)
(* C20. When id matches no entry of the current catalog, getTool makes     *)
(* exactly one forced discovery, which bypasses the cache, and matches     *)
(* again on the refreshed catalog; when id is still unmatched the          *)
(* resolution fails with an error that carries id.  As the claim has it,   *)
(* the error is an UnknownToolError.                                       *)
(***************************************************************************)
\* the second pass: one listTools(true), no file read, a live catalog
forcedOnce(t) ==
  /\ frame[t].forced <= 1
  /\ frame[t].pass = 2
     => /\ frame[t].forced = 1
        /\ frame[t].refresh
        /\ frame[t].reads = 0
        /\ frame[t].got # "cache"
        /\ frame[t].name # undefined
           => /\ frame[t].got = "live"
              /\ rightlyResolved(frame[t].name, frame[t].tools, frame[t].id)

\* the resolution of task t has failed: no match after the refresh
failsUnmatched(t) == call[t].pc = "done" /\ call[t].result.from = "resolve"

unmatchedAfterRefresh(t) ==
  /\ frame[t].pass = 2
  /\ frame[t].forced = 1
  /\ frame[t].got = "live"
  /\ ~hasExact(frame[t].tools, frame[t].id)
  /\ ~hasSuffix(frame[t].tools, frame[t].id)
  /\ call[t].result.kind = "error"
  /\ frame[t].message = sUnknownTool \o frame[t].id

handed ==
  IF redact.op = "redactTool"
  THEN jsonRoundTrip(valueAt(redact.before, redact.input))
  ELSE valueAt(redact.before, redact.input)

returned == valueAt(redact.heap, redact.output)

\* the redactor has returned and the caller has not touched the result
redacted == redact.op # "none" /\ redact.mutated = 0

credentialKnown == redact.apiKey \notin {undefined, <<>>}

\* the names of the known-sensitive set
SensitiveKeys ==
  {"authorization", "Authorization", "api_key", "apiKey", "access_token", "token",
   "Z_AI_API_KEY", "ZAI_API_KEY"}

\* every string scalar of a value, at any depth
RECURSIVE allStrings(_)
allStrings(value) ==
  CASE value.t = "string" -> {value.s}
    [] value.t = "array" -> UNION {allStrings(value.items[i]) : i \in 1..Len(value.items)}
    [] value.t = "object" -> UNION {allStrings(value.items[i].c) : i \in 1..Len(value.items)}
    [] OTHER -> {}

\* the string scalars of a value in document order, those under a sensitive
\* key left out
RECURSIVE stringsOf(_)
RECURSIVE stringsOfAll(_)
stringsOf(value) ==
  CASE value.t = "string" -> <<value.s>>
    [] value.t = "array" -> stringsOfAll(value.items)
    [] value.t = "object" ->
         stringsOfAll([i \in 1..Len(value.items) |->
                         IF value.items[i].k \in SensitiveKeys THEN Null
                         ELSE value.items[i].c])
    [] OTHER -> <<>>

stringsOfAll(values) ==
  IF values = <<>> THEN <<>> ELSE stringsOf(Head(values)) \o stringsOfAll(Tail(values))

startsWithBearer(str) == Len(str) >= Len(sBearer) /\ SubSeq(str, 1, Len(sBearer)) = sBearer

(***************************************************************************)
(* C21. Redaction rule 1: when the credential is known, every occurrence   *)
(* of it in any string scalar, at any depth of arrays and objects, is      *)
(* replaced by "[REDACTED]": no string of the result holds the credential, *)
(* and putting the credential back for the marker gives the string that    *)
(* was handed in (for the strings rule 2 leaves alone).                    *)
(***************************************************************************)
C21_CredentialReplacedEverywhere ==
  redacted /\ credentialKnown =>
    /\ \A str \in allStrings(returned) : ~Includes(str, redact.apiKey)
    /\ Len(stringsOf(returned)) = Len(stringsOf(handed))
    /\ \A i \in 1..Len(stringsOf(handed)) :
         ~startsWithBearer(stringsOf(handed)[i]) =>
           replaceAll(stringsOf(returned)[i], sREDACTED, redact.apiKey)
             = stringsOf(handed)[i]

\* the credential three times in a string two levels down
C21_Witness ==
  /\ redacted /\ credentialKnown
  /\ handed = Arr(<<Obj(<<[k |-> "note", c |-> Str(<<"s","k","1","s","k","1"," ","s","k","1">>)],
                         [k |-> "token", c |-> Str(<<"s","k","1","s","k","1"," ","s","k","1">>)]>>)>>)
  /\ returned = Arr(<<Obj(<<[k |-> "note", c |-> Str(<<"[","R","E","D","A","C","T","E","D","]","[","R","E","D","A","C","T","E","D","]"," ","[","R","E","D","A","C","T","E","D","]">>)],
                           [k |-> "token", c |-> Str(sREDACTED)]>>)>>)

(***************************************************************************)
(* C22. Redaction rule 2: a string that holds "Bearer <token>", wherever   *)
(* in the string, has the token replaced by the marker: no string of the   *)
(* result holds "Bearer", white space and a token other than the marker.   *)
(***************************************************************************)
\* the token of the "Bearer <token>" a string begins with, <<>> when it
\* begins with none
bearerToken(str) ==
  IF bearerMatch(str) = 0 THEN <<>>
  ELSE LET rest == SubSeq(str, Len(sBearer) + 1, bearerMatch(str)) IN
       SubSeq(rest, run(rest, TRUE) + 1, Len(rest))

C22_BearerTokenReplacedAnywhere ==
  redacted =>
    \A str \in allStrings(returned) : \A i \in 1..Len(str) :
      bearerToken(SubSeq(str, i, Len(str))) \in {<<>>, sREDACTED}

(***************************************************************************)
(* C23. Redaction rule 3: under every key of the known-sensitive set the   *)
(* value becomes the marker, whatever it was, and is not gone into; under  *)
(* every other key, and in every array, the value is the redacted copy of  *)
(* what was there: the same keys in the same order, the same elements,     *)
(* and the scalars that hold no secret as they were.                       *)
(***************************************************************************)
RECURSIVE rule3(_, _)
rule3(in, out) ==
  CASE in.t = "object" ->
         /\ out.t = "object"
         /\ Len(out.items) = Len(in.items)
         /\ \A i \in 1..Len(in.items) :
              /\ out.items[i].k = in.items[i].k
              /\ IF in.items[i].k \in SensitiveKeys
                 THEN out.items[i].c = Str(sREDACTED)
                 ELSE rule3(in.items[i].c, out.items[i].c)
    [] in.t = "array" ->
         /\ out.t = "array"
         /\ Len(out.items) = Len(in.items)
         /\ \A i \in 1..Len(in.items) : rule3(in.items[i], out.items[i])
    [] in.t = "string" ->
         /\ out.t = "string"
         /\ (~(credentialKnown /\ Includes(in.s, redact.apiKey)) /\ ~startsWithBearer(in.s))
              => out = in
    [] OTHER -> out = in

C23_SensitiveKeysWholesale ==
  redacted => rule3(handed, returned)

\* an object under a sensitive key, and beside it an object under another
\* key with a sensitive key inside
C23_Witness ==
  /\ redacted /\ credentialKnown
  /\ handed = Obj(<<[k |-> "inner", c |-> Obj(<<[k |-> "Token", c |-> Str(<<"k","e","y"," ","s","k","1",".">>)],
                                                [k |-> "Authorization", c |-> Arr(<<Str(<<"k","e","y"," ","s","k","1",".">>)>>)]>>)],
                    [k |-> "apiKey", c |-> Obj(<<[k |-> "Token", c |-> Str(<<"k","e","y"," ","s","k","1",".">>)],
                                                 [k |-> "Authorization", c |-> Arr(<<Str(<<"k","e","y"," ","s","k","1",".">>)>>)]>>)]>>)
  /\ returned = Obj(<<[k |-> "inner", c |-> Obj(<<[k |-> "Token", c |-> Str(<<"k","e","y"," ","[","R","E","D","A","C","T","E","D","]",".">>)],
                                                  [k |-> "Authorization", c |-> Str(sREDACTED)]>>)],
                      [k |-> "apiKey", c |-> Str(sREDACTED)]>>)

(***************************************************************************)
(* C24. The redactor never changes what it is handed, and what it returns  *)
(* shares no array and no object with it: no cell of the caller's heap     *)
(* has changed when it returns, and whatever the caller then does to the   *)
(* arrays and objects of the result, the value handed in stays what it     *)
(* was.                                                                    *)
(***************************************************************************)
C24_InputUntouchedDeepCopy ==
  redact.op # "none" =>
    /\ SubSeq(redact.heap, 1, Len(redact.before)) = redact.before
    /\ valueAt(redact.heap, redact.input) = valueAt(redact.before, redact.input)
    /\ containers(redact.heap, redact.output)
         \cap containers(redact.heap, redact.input) = {}

\* the caller has emptied the two objects of a result, and the value
\* handed in still has its own
C24_Witness ==
  /\ redact.op = "redactSecrets"
  /\ redact.mutated = 2
  /\ returned = Obj(<<>>)
  /\ valueAt(redact.heap, redact.input)
       = Obj(<<[k |-> "inner", c |-> Obj(<<[k |-> "note", c |-> Num(7)],
                                           [k |-> "token", c |-> Num(7)]>>)],
               [k |-> "apiKey", c |-> Obj(<<[k |-> "note", c |-> Num(7)],
                                            [k |-> "token", c |-> Num(7)]>>)]>>)

(***************************************************************************)
(* The four fields of the fingerprint of a client.                         *)
(***************************************************************************)
fingerprintFields(x) ==
  LET c == peers.client[x] IN
  <<c.mode, c.baseUrl, c.endpoints,
    IF c.enableVision = Undef
    THEN toLowerCase(orElse(c.Z_AI_VISION_MCP, <<>>)) \notin {<<"0">>, sFalse}
    ELSE c.enableVision = Bool(TRUE)>>

sameFingerprint(x, y) == fingerprintFields(x) = fingerprintFields(y)

\* client y read the cache after client x wrote it
readAfterWrite(x, y) ==
  /\ peers.client[x].wroteAt # 0
  /\ peers.client[y].readAt > peers.client[x].wroteAt

(***************************************************************************)
(* C25. Fingerprint determinism: two clients with the same mode, base      *)
(* endpoint, endpoints and vision flag compute the same cache key, and     *)
(* one reads the entry the other wrote, whatever their API keys, the       *)
(* calls made before and the time.                                         *)
(***************************************************************************)
C25_SameFingerprintSameEntry ==
  peers # <<>> =>
    \A x \in Peers, y \in Peers :
      sameFingerprint(x, y) =>
        /\ (peers.client[x].key # <<>> /\ peers.client[y].key # <<>>)
             => peers.client[x].key = peers.client[y].key
        /\ readAfterWrite(x, y)
             => /\ peers.client[y].got \in Peers
                /\ sameFingerprint(peers.client[y].got, y)

\* q, with another API key and its vision flag turned off by its option
\* where p's is turned off by the environment, reads at a later time
\* what p wrote
C25_Witness ==
  /\ peers # <<>>
  /\ sameFingerprint("p", "q")
  /\ peers.client["p"].apiKey # peers.client["q"].apiKey
  /\ peers.client["q"].enableVision = Bool(FALSE)
  /\ peers.client["p"].Z_AI_VISION_MCP = <<"0">>
  /\ readAfterWrite("p", "q")
  /\ peers.client["q"].wroteAt = 0
  /\ peers.client["q"].got = "p"
  /\ now > 0

(***************************************************************************)
(* C26. Fingerprint sensitivity: two clients that differ in the mode, the  *)
(* base endpoint, the endpoints or the vision flag compute different       *)
(* cache keys, and neither ever reads the entry the other wrote.           *)
(***************************************************************************)
C26_DifferentFingerprintDifferentEntry ==
  peers # <<>> =>
    \A x \in Peers, y \in Peers :
      ~sameFingerprint(x, y) =>
        /\ (peers.client[x].key # <<>> /\ peers.client[y].key # <<>>)
             => peers.client[x].key # peers.client[y].key
        /\ peers.client[y].got # x

\* q differs from p in the vision flag alone, and misses after p wrote
C26_Witness ==
  /\ peers # <<>>
  /\ fingerprintFields("p")[1] = fingerprintFields("q")[1]
  /\ fingerprintFields("p")[2] = fingerprintFields("q")[2]
  /\ fingerprintFields("p")[3] = fingerprintFields("q")[3]
  /\ fingerprintFields("p")[4] # fingerprintFields("q")[4]
  /\ readAfterWrite("p", "q")
  /\ peers.client["q"].wroteAt = 0
  /\ peers.client["q"].got = "miss"

(***************************************************************************)
(* C27. Every tool the CLI prints in full (`tools --full`, `tool <name>`)  *)
(* has been through the redactor, whether it was discovered or read from   *)
(* the cache file: it holds the credential nowhere, every sensitive key    *)
(* of it holds the marker, and redacting it again changes nothing.         *)
(***************************************************************************)
\* the tools a command has printed in full
printedInFull(t) ==
  CASE frame[t].op = "showTool" /\ frame[t].output # Undef -> <<frame[t].output>>
    [] frame[t].op = "tools" /\ frame[t].full /\ frame[t].output # Undef -> frame[t].output.items
    [] OTHER -> <<>>

theCredential == orElse(env.Z_AI_API_KEY, env.ZAI_API_KEY)

RECURSIVE sensitiveKeysMarked(_)
sensitiveKeysMarked(value) ==
  CASE value.t = "object" ->
         \A i \in 1..Len(value.items) :
           IF value.items[i].k \in SensitiveKeys
           THEN value.items[i].c = Str(sREDACTED)
           ELSE sensitiveKeysMarked(value.items[i].c)
    [] value.t = "array" -> \A i \in 1..Len(value.items) : sensitiveKeysMarked(value.items[i])
    [] OTHER -> TRUE

C27_DisplayedToolsRedacted ==
  \A t \in Tasks :
    \A i \in 1..Len(printedInFull(t)) :
      LET tool == printedInFull(t)[i] IN
      /\ theCredential \notin {undefined, <<>>}
           => \A str \in allStrings(tool) : ~Includes(str, theCredential)
      /\ sensitiveKeysMarked(tool)
      /\ redactSecrets(tool, theCredential) = tool
      /\ nameOf(tool) = nameOf(filtered(frame[t])[IF frame[t].op = "tools" THEN i
                                                    ELSE find(frame[t].tools, frame[t].id)])

\* `tools --full` has printed a catalog that was discovered with the key
\* and a bearer token in it
C27_Witness ==
  /\ frame[Solo].op = "tools"
  /\ frame[Solo].source = "live"
  /\ frame[Solo].tools = <<toolOcr, toolBareOcr>>
  /\ Len(printedInFull(Solo)) = 2
  /\ get(printedInFull(Solo)[1], "description")
       = Str(<<"k","e","y"," ","[","R","E","D","A","C","T","E","D","]",".">>)
  /\ printedInFull(Solo)[1] # jsonRoundTrip(toolOcr)

(***************************************************************************)
(* The shapes of a failure, read off its message without regard to case,   *)
(* and the class each shape is to surface as.                              *)
(***************************************************************************)
timeoutShaped ==
  [e \in DOMAIN Errors |->
     \E m \in RetriableCategories.timeout : Includes(toLowerCase(Errors[e].msg), m)]

connectivityShaped ==
  [e \in DOMAIN Errors |->
     \E m \in RetriableCategories.refused \cup RetriableCategories.reset
                \cup RetriableCategories.network :
       Includes(toLowerCase(Errors[e].msg), m)]

typedByShape ==
  [e \in DOMAIN Errors |->
     IF AuthShaped[e] THEN "AuthError"
     ELSE IF timeoutShaped[e] THEN "TimeoutError"
     ELSE IF connectivityShaped[e] THEN "NetworkError"
     ELSE "ApiError"]

\* callTool has given up after its last retry failed with a retriable error
budgetExhausted(t) ==
  /\ call[t].pc = "done"
  /\ call[t].result.kind = "error"
  /\ call[t].result.from = "invoke"
  /\ call[t].maxRetries >= 1
  /\ call[t].attempt = call[t].maxRetries + 1
  /\ MatchesCategory[call[t].result.cause]
  /\ ~AuthShaped[call[t].result.cause]

(***************************************************************************)
(* C28. When the retry budget is exhausted callTool raises an error typed  *)
(* by the last failure: TimeoutError for a timeout, NetworkError for a     *)
(* refused or reset connection or a network / fetch failure, ApiError for  *)
(* a rate limit or an HTTP 5xx.                                            *)
(***************************************************************************)
C28_ExhaustedBudgetTypedByShape ==
  \A t \in Tasks :
    budgetExhausted(t) => call[t].result.cls = typedByShape[call[t].result.cause]

(***************************************************************************)
(* C29. A registration that fails makes init() raise an error typed by     *)
(* the shape of the failure (AuthError, TimeoutError, NetworkError, else   *)
(* ApiError), both when the transport raises and when registerManual       *)
(* returns success false with its error strings.                           *)
(***************************************************************************)
C29_FailedRegistrationTypedByShape ==
  \A t \in Tasks :
    (call[t].pc = "done" /\ call[t].result.kind = "error" /\ call[t].result.from = "init")
      => call[t].result.cls = typedByShape[call[t].result.cause]

(***************************************************************************)
(* C30. Before retry n callTool sleeps min(max, base * 2^(n-1)) + j with   *)
(* 0 <= j <= jitterMax.  As stated, every delay is within                  *)
(* [base * 2^(n-1), min(max, base * 2^(n-1)) + jitterMax]; what holds is   *)
(* that it is within [min(max, base * 2^(n-1)), the same upper end].       *)
(***************************************************************************)
baseDelayMs == DEFAULT_RETRY_BASE_MS.n
maxDelayMs == DEFAULT_RETRY_MAX_MS.n
jitterMaxMs == DEFAULT_RETRY_JITTER_MS.n

capped(n) == IF baseDelayMs * 2 ^ (n - 1) <= maxDelayMs THEN baseDelayMs * 2 ^ (n - 1) ELSE maxDelayMs

C30_DelayWithinStatedInterval ==
  \A i \in 1..Len(slept) :
    /\ slept[i].attempt = i
    /\ ~slept[i].ms.nan
    /\ baseDelayMs * 2 ^ (i - 1) <= slept[i].ms.n
    /\ slept[i].ms.n <= capped(i) + jitterMaxMs

C30_DelayWithinCappedInterval ==
  \A i \in 1..Len(slept) :
    /\ slept[i].attempt = i
    /\ i <= call[Solo].maxRetries
    /\ ~slept[i].ms.nan
    /\ capped(i) <= slept[i].ms.n
    /\ slept[i].ms.n <= capped(i) + jitterMaxMs

\* base 500, max 800: the second delay is the cap and some jitter, under
\* base * 2
C30_Witness ==
  /\ Len(slept) = 2
  /\ baseDelayMs = 500 /\ maxDelayMs = 800 /\ jitterMaxMs = 250
  /\ slept[1].ms.n = 500
  /\ slept[2].ms.n = 800 + 125
  /\ call[Solo].pc = "done"

(***************************************************************************)
(* C35. In every reachable state of a client instance isInitialized = true *)
(* implies that the client handle is not null, under every interleaving    *)
(* of init(), close() and callTool retries, a close() that runs while a    *)
(* registration is in flight included; so no callTool fails with 'MCP      *)
(* client not initialized' after an init() that succeeded.                 *)
(***************************************************************************)
C35_InitializedHasClient ==
  /\ isInitialized => client # 0
  /\ \A t \in Tasks :
       (call[t].pc = "done" /\ call[t].result.from = "noclient") => ~isInitialized

(***************************************************************************)
(* C34. Two concurrent callTool invocations share the one session of the   *)
(* client, and the teardown of a retry takes it from under the sibling:    *)
(* the session an invocation is in flight on is closed only by a sibling,  *)
(* either a close() of the user or the teardown a sibling callTool makes   *)
(* after a retriable failure with budget left, and the invocation is left  *)
(* in flight on the closed session.  The state the claim names, an         *)
(* in-flight invocation whose session a sibling's retry has closed, is     *)
(* C34_Witness.                                                            *)
(***************************************************************************)
\* the session u's transport call is in flight on is closed in this step
closedInFlight(u) ==
  /\ call[u].pc = "invoke"
  /\ session[call[u].usedSess] = "live"
  /\ session'[call[u].usedSess] = "closed"

\* t's close() of that session ends in this step
tearsDown(t, u) ==
  /\ call[t].pc = "closing"
  /\ call[t].closeTarget = call[u].usedSess
  /\ call'[t].pc # "closing"

C34_SiblingTeardown ==
  [][\A u \in Tasks :
       closedInFlight(u)
       => /\ call'[u] = call[u]
          /\ \E t \in Tasks \ {u} :
               /\ tearsDown(t, u)
               /\ call[t].op = "callTool"
                  => /\ Retriable[call[t].lastErr]
                     /\ call[t].attempt <= call[t].maxRetries]_vars

C34_Witness ==
  \E t, u \in Tasks :
    /\ t # u
    /\ call[u].op = "callTool"
    /\ call[u].pc = "invoke"
    /\ session[call[u].usedSess] = "closed"
    /\ call[t].op = "callTool"
    /\ call[t].pc = "sleep"
    /\ call[t].usedSess = call[u].usedSess
    /\ Retriable[call[t].lastErr]

(***************************************************************************)
(* C36. callTool always terminates: whatever the transport's calls do      *)
(* (each register, invoke and close returning, raising or timing out) and  *)
(* whatever the retry budget N, a callTool that has begun returns or       *)
(* raises, and it makes at most max(N, 0) + 1 invoke attempts, at most     *)
(* max(N, 0) teardowns and at most max(N, 0) backoff sleeps.               *)
(***************************************************************************)
max0(n) == IF n > 0 THEN n ELSE 0

begun(t) == call[t].op = "callTool" /\ call[t].pc # "idle"

C36_CallToolTerminates ==
  /\ [](\A t \in Tasks :
          begun(t)
          => /\ call[t].invokes <= max0(call[t].maxRetries) + 1
             /\ call[t].teardowns <= max0(call[t].maxRetries)
             /\ call[t].sleeps <= max0(call[t].maxRetries))
  /\ \A t \in Tasks : begun(t) ~> (call[t].pc = "done")

C36_Witness ==
  /\ call[Solo].op = "callTool"
  /\ call[Solo].pc = "done"
  /\ call[Solo].maxRetries = 2
  /\ call[Solo].invokes = 3
  /\ call[Solo].teardowns = 2
  /\ call[Solo].sleeps = 2

(***************************************************************************)
(* C31. readToolsCache, once it looks at the file, never raises; it        *)
(* returns null (the entry is treated as absent, and listTools goes on to  *)
(* discover) whenever the file is missing, unreadable, not parseable, has  *)
(* a version other than the current one or has no tools array; otherwise,  *)
(* within the TTL, it returns exactly the stored tools in stored order.    *)
(***************************************************************************)
entryAbsent ==
  \/ cacheFile.kind \in {"absent", "unreadable", "garbage"}
  \/ get(cacheFile.data, "version") # Num(TOOL_CACHE_VERSION)
  \/ get(cacheFile.data, "tools").t # "array"

withinTtl ==
  /\ get(cacheFile.data, "timestamp").t = "number"
  /\ isFinite(DEFAULT_TOOL_CACHE_TTL_MS)
  /\ now - get(cacheFile.data, "timestamp").n <= DEFAULT_TOOL_CACHE_TTL_MS.n

C31_ReadNullOrStoredCatalog ==
  [][\A t \in Tasks :
       readEnds(t)
       => /\ call'[t].result.kind # "error"
          /\ entryAbsent => readMisses(t)
          /\ (~entryAbsent /\ withinTtl)
             => /\ call'[t].pc = "done"
                /\ call'[t].result = Returned
                /\ frame'[t].got = "cache"
                /\ frame'[t].tools = get(cacheFile.data, "tools").items]_<<vars, others>>

\* a read that returned the two stored tools in stored order
C31_Witness ==
  /\ call[Solo].pc = "done"
  /\ frame[Solo].got = "cache"
  /\ frame[Solo].reads = 1
  /\ Len(frame[Solo].tools) = 2
  /\ frame[Solo].tools = get(cacheFile.data, "tools").items
  /\ nameOf(frame[Solo].tools[1]) = nameOf(toolOcr)
  /\ nameOf(frame[Solo].tools[2]) = nameOf(toolBareOcr)

(***************************************************************************)
(* C37. Lazy discovery: a listTools(false) that finds a valid, unexpired   *)
(* cache entry returns the stored catalog; from its call to its return no  *)
(* transport session is created or registered, nothing is discovered, the  *)
(* cache file is not rewritten and the session state is as it was (still   *)
(* Uninitialized if it was).                                               *)
(***************************************************************************)
\* listTools(false) goes to read the file in this step
readBegins(t) == call[t].pc = "idle" /\ call'[t].pc = "reading"

\* the read of a valid, unexpired entry ends in this step
readFinds(t) == readEnds(t) /\ frame[t].op = "listTools" /\ ~entryAbsent /\ withinTtl

C37_CachedCatalogWithoutSession ==
  [][\A t \in Tasks :
       /\ (readBegins(t) \/ readFinds(t))
          => /\ UNCHANGED <<client, initPromise, isInitialized, doInit, session, cacheFile>>
             /\ SessionState' = SessionState
             /\ frame'[t].discoveries = 0
             /\ frame'[t].wrote = "none"
       /\ readFinds(t)
          => /\ call'[t].pc = "done"
             /\ call'[t].result = Returned
             /\ frame'[t].tools = get(cacheFile.data, "tools").items]_<<vars, others>>

\* listTools() has returned the stored catalog of a client that has never
\* had a session
C37_Witness ==
  /\ frame[Solo].op = "listTools"
  /\ call[Solo].pc = "done"
  /\ call[Solo].result = Returned
  /\ frame[Solo].got = "cache"
  /\ frame[Solo].tools = <<redactTool(toolWeb)>>
  /\ SessionState = "Uninitialized"
  /\ client = 0
  /\ \A a \in AttemptIds : doInit[a] = "unused" /\ session[a] = "none"

(***************************************************************************)
(* C38. For every discovered catalog and every non-empty active            *)
(* credential, the serialized cache entry writeToolsCache writes holds no  *)
(* occurrence of the credential, neither in a string value nor in a        *)
(* mapping key.                                                            *)
(***************************************************************************)
C38_WrittenEntryHoldsNoCredential ==
  [][(cacheFile' # cacheFile /\ cacheFile'.kind = "json" /\ theCredential \notin {undefined, <<>>})
     => ~Includes(stringify(cacheFile'.data), theCredential)]_<<vars, others>>

\* the same of the string values alone
writtenValuesHoldNoCredential ==
  [][(cacheFile' # cacheFile /\ cacheFile'.kind = "json" /\ theCredential \notin {undefined, <<>>})
     => \A i \in DOMAIN stringsOf(cacheFile'.data) :
          ~Includes(stringsOf(cacheFile'.data)[i], theCredential)]_<<vars, others>>

(***************************************************************************)
(* C32. Tie-break: when no entry of the catalog is named id and several    *)
(* entries have id as a suffix, the resolution returns the one that comes  *)
(* first in catalog order, in the first pass and in the refreshed pass.    *)
(***************************************************************************)
suffixed(tools, id) == {i \in 1..Len(tools) : endsWith(nameOf(tools[i]), <<".">> \o id)}

C32_FirstSuffixMatchWins ==
  \A t \in Tasks :
    (/\ frame[t].op \in ResolveOps
     /\ frame[t].name # undefined
     /\ ~hasExact(frame[t].tools, frame[t].id)
     /\ Cardinality(suffixed(frame[t].tools, frame[t].id)) > 1)
    => \E i \in suffixed(frame[t].tools, frame[t].id) :
         /\ frame[t].name = nameOf(frame[t].tools[i])
         /\ \A j \in suffixed(frame[t].tools, frame[t].id) : i <= j

\* the refreshed pass: "ocr" resolved to "y.x.ocr", the first of the three
\* entries of the live catalog, all of which end in ".ocr"
C32_Witness ==
  /\ frame[Solo].op \in ResolveOps
  /\ frame[Solo].pass = 2
  /\ frame[Solo].source = "live"
  /\ frame[Solo].id = <<"o","c","r">>
  /\ Cardinality(suffixed(frame[Solo].tools, frame[Solo].id)) = 3
  /\ frame[Solo].name = nameOf(toolNestedOcr)

(***************************************************************************)
(* C39. Resolution is idempotent on a fixed catalog: the name a            *)
(* resolution returns is the name of an entry of the catalog, resolving it *)
(* again in the same catalog returns it again, and an id that is the name  *)
(* of an entry resolves to itself; so the callToolRaw that the `call`      *)
(* command makes with the name resolveToolName returned invokes that name  *)
(* when the catalog is the same.                                           *)
(***************************************************************************)
namesOf(tools) == [i \in 1..Len(tools) |-> nameOf(tools[i])]

C39_ResolutionIdempotent ==
  \A t \in Tasks :
    (frame[t].op \in ResolveOps /\ frame[t].name # undefined)
    => LET tools == frame[t].tools
           name == frame[t].name
       IN /\ \E i \in 1..Len(tools) : nameOf(tools[i]) = name
          /\ find(tools, name) # 0
          /\ nameOf(tools[find(tools, name)]) = name
          /\ hasExact(tools, frame[t].id) => name = frame[t].id
          /\ (frame[t].resolvedIn # <<>> /\ namesOf(frame[t].resolvedIn) = namesOf(tools))
             => /\ name = frame[t].id
                /\ toolName[t] = frame[t].id

\* "ocr" was resolved to "x.ocr", and callToolRaw("x.ocr"), in the same
\* catalog, where "y.x.ocr" ends in ".x.ocr", has invoked "x.ocr"
C39_Witness ==
  /\ frame[Solo].op = "callToolRaw"
  /\ frame[Solo].resolvedIn # <<>>
  /\ namesOf(frame[Solo].resolvedIn) = namesOf(frame[Solo].tools)
  /\ frame[Solo].id = nameOf(toolOtherOcr)
  /\ nameOf(frame[Solo].tools[2]) = nameOf(toolNestedOcr)
  /\ toolName[Solo] = nameOf(toolOtherOcr)
  /\ call[Solo].pc = "done"
  /\ call[Solo].result = Returned

(***************************************************************************)
(* C33. On a successful invocation callTool returns the parsed form when   *)
(* the raw result is a string that parses as JSON, and the raw result      *)
(* unchanged when it is a string that does not parse or is no string; and  *)
(* the successful attempt ends the call: no further attempt, no teardown,  *)
(* no sleep.                                                               *)
(***************************************************************************)
\* the invocation of t returns in this step
succeeds(t) ==
  call[t].pc = "invoke" /\ call'[t].pc = "done" /\ call'[t].result.kind = "ok"

returnsAsClaimed(raw, out) ==
  /\ \A value \in ResultValues : raw = Str(stringify(value)) => out = value
  /\ \A t \in Texts : raw = Str(t.text) => out = t.value
  /\ \A text \in NotJson : raw = Str(text) => out = raw
  /\ raw.t # "string" => out = raw

C33_ParsedOrRawResult ==
  [][\A t \in Tasks :
       /\ succeeds(t)
          => /\ call'[t].result = Returned
             /\ returnsAsClaimed(toolResult'.raw, toolResult'.returned)
             /\ UNCHANGED <<client, initPromise, isInitialized, doInit, session>>
             /\ call'[t].invokes = call[t].invokes
             /\ call'[t].teardowns = call[t].teardowns
             /\ call'[t].sleeps = call[t].sleeps
       /\ (call[t].pc = "done" /\ call[t].op = "callTool") => call'[t] = call[t]]_<<vars, others>>

\* the second attempt returned a text, and callTool the object it denotes
C33_Witness ==
  /\ call[Solo].pc = "done"
  /\ call[Solo].result = Returned
  /\ call[Solo].invokes = 2
  /\ toolResult.raw.t = "string"
  /\ toolResult.returned.t = "object"
  /\ get(toolResult.returned, "name") = Str(<<"o","c","r">>)
  /\ get(toolResult.returned, "tags").items[2] = Str(<<"{","}">>)

(***************************************************************************)
(* C40. collectTreeSnapshots(repo, basePath, depth) terminates for every   *)
(* repository structure, those whose listings repeat a directory           *)
(* included; it fetches each distinct directory path at most once and      *)
(* none at a level greater than depth; and it returns the snapshots in     *)
(* breadth-first order, the one of basePath first.                         *)
(***************************************************************************)
fetchedOnce ==
  \A i, j \in 1..Len(tree.fetched) : tree.fetched[i].path = tree.fetched[j].path => i = j

withinDepth == \A i \in 1..Len(tree.fetched) : tree.fetched[i].level <= tree.depth

breadthFirst ==
  /\ \A i, j \in 1..Len(tree.fetched) : i <= j => tree.fetched[i].level <= tree.fetched[j].level
  /\ tree.fetched # <<>>
     => /\ tree.fetched[1] = [path |-> orElse(tree.basePath, <<>>), level |-> 1]
        /\ \A i \in 2..Len(tree.fetched) :
             \E j \in 1..(i - 1) : tree.fetched[j].level + 1 = tree.fetched[i].level
  /\ tree.pc = "done"
     => /\ Len(tree.snapshots) = Len(tree.fetched)
        /\ \A i \in 1..Len(tree.snapshots) :
             /\ tree.snapshots[i].path = orElse(tree.fetched[i].path, <<"/">>)
             /\ tree.snapshots[i].structure = getRepoStructure(tree.repo, tree.fetched[i].path)

C40_TreeWalkTerminatesBreadthFirst ==
  /\ [](fetchedOnce /\ withinDepth /\ breadthFirst)
  /\ (tree.pc = "fetching") ~> (tree.pc \in {"done", "raised"})

\* the repository whose listings repeat directories, walked to the end
C40_Witness ==
  /\ tree.pc = "done"
  /\ tree.repo = "repeats"
  /\ tree.basePath = undefined
  /\ tree.depth = 4
  /\ Len(tree.snapshots) >= 4

====
